---------------------------- MODULE Spec2Model ----------------------------
(***************************************************************************)
(* Model of the synthetic banking data generators under                    *)
(* docs/banking/generators: branches.py, customers.py, accounts.py,        *)
(* transactions.py, relationships.py and the orchestrator generate_all.py. *)
(*                                                                         *)
(* Every script is a sequential program.  The model keeps one frame per    *)
(* generator function (its local variables), the output directory `fs'     *)
(* and the program position `pc'.  Money is counted in cents, a date is    *)
(* the number of days since an arbitrary epoch, an identifier "PFX-000n"   *)
(* is the triple <<PFX, digits, n>>.                                       *)
(*                                                                         *)
(* Every call of the random module is a choice among the values the call   *)
(* can return.  A run is explored in one of two ways: with `rng' free,     *)
(* every choice is taken (all seeds at once, on small inputs); with `rng'  *)
(* seeded, the choices are the ones a fixed stream of numbers makes, as    *)
(* after random.seed(seed) (one seed at a time, on larger inputs).         *)
(***************************************************************************)
EXTENDS Integers, Sequences, FiniteSets, TLC

VARIABLES
    prog,   \* the script that was started: "main" or one generator
    pc,     \* position of the running script
    args,   \* the parsed command line / the size preset
    env,    \* what the process gets from its runtime: the date, set order
    rng,    \* state of the random module
    fs,     \* the output directory: file name -> [exists, rows]
    hist,   \* the output directories of the runs that went before
    br,     \* frame of generate_branches
    cu,     \* frame of generate_customers
    ac,     \* frame of generate_accounts
    tx,     \* frame of generate_transactions
    rl      \* frame of generate_all_relationships

vars == <<prog, pc, args, env, rng, fs, hist, br, cu, ac, tx, rl>>

(***************************************************************************)
(* Bounds of the model.                                                    *)
(***************************************************************************)
\* Largest target count of branches.py run alone (the preset counts are
\* added to the range).
MaxBranchTarget == 80
\* Largest --individual, --corporate and --hnw of customers.py run alone.
MaxCustomersPerType == 1
\* Rows of the customers.tsv / branches.tsv that accounts.py run alone reads.
MaxInputCustomers == 1
MaxInputBranches == 2
\* Rows of the accounts.tsv that transactions.py run alone reads.
MaxInputAccounts == 2
\* Number of accounts of one customer: the least number the code can draw,
\* and any larger one up to this bound (free runs / seeded runs of the
\* orchestrator / seeded runs of accounts.py alone).
MaxAccountsPerCustomer == 1
MaxAccountsPerCustomerSeeded == 2
MaxAccountsPerCustomerAlone == 10
\* Number of transactions of one account, at most (free / seeded runs).
MaxTxPerAccount == 1
MaxTxPerAccountSeeded == 3
\* Placeholder customers (1000 in the source) and accounts (100 in the
\* source) that the model makes when an input file has no usable row.
NumPlaceholderCustomers == 2
NumPlaceholderAccounts == 1
\* Sizes of the orchestrator runs: the presets, scaled down.
MaxPipelineBranches == 2
PipelineIndividuals == 24
\* Seeds 0 .. MaxSeed.
MaxSeed == 5
\* Inputs of relationships.py run alone: rows of accounts.tsv when the
\* owners vary, rows of transactions.tsv when the transfers vary, and rows
\* of customers.tsv when referrals are made (25 customers give one).
MaxOwnedAccounts == 3
MaxInputTransactions == 3
MaxCompletedTransfers == 4
NumSocialCustomers == 25
\* Seeds 0 .. MaxSocialSeed of the runs that make referrals.
MaxSocialSeed == 40
\* The orchestrator from the transaction stage on: seeds 0 .. MaxTailSeed,
\* numbers of the stream used up by the stages before, up to MaxTailPos,
\* and accounts of the one customer.
MaxTailSeed == 40
MaxTailPos == 10
NumTailAccounts == 2
\* Two runs are at most this many days apart.
MaxDayShift == 1

(***************************************************************************)
(* Helpers.                                                                *)
(***************************************************************************)
Max(a, b) == IF a >= b THEN a ELSE b
Min(a, b) == IF a <= b THEN a ELSE b

\* No frame: the function is not running.
Idle == [running |-> FALSE]

\* No record: the local variable holds nothing (yet, or any more).
NoRecord == [none |-> TRUE]

RECURSIVE Digits(_)
Digits(n) == IF n < 10 THEN 1 ELSE 1 + Digits(n \div 10)

\* f"{prefix}-{n:0{width}d}": the string is fixed by its prefix, the number
\* of digits printed and the number.
FormatId(prefix, width, n) == <<prefix, Max(width, Digits(n)), n>>

RECURSIVE SumWeights(_, _)
SumWeights(table, k) ==
    IF k = 0 THEN 0 ELSE table[k].weight + SumWeights(table, k - 1)

\* The elements of a list.
Range(list) == {list[k] : k \in 1 .. Len(list)}

\* The list without its element at position i.
Remove(list, i) == SubSeq(list, 1, i - 1) \o SubSeq(list, i + 1, Len(list))

RECURSIVE Concat(_)
\* The lists of a list of lists, one after the other.
Concat(lists) ==
    IF lists = <<>> THEN <<>> ELSE Head(lists) \o Concat(Tail(lists))

(***************************************************************************)
(* The random module.                                                      *)
(***************************************************************************)
\* Every value may be drawn: the seed is not fixed.
Free == [seeded |-> FALSE]

\* random.seed(seed): the stream of the seed, at its start.
Seeded(seed) == [seeded |-> TRUE, seed |-> seed, pos |-> 0]

\* The number that the stream of `seed' holds at position `pos'.  Any
\* function of the two will do; this one scatters small arguments.
Stream(seed, pos) ==
    LET x == (seed * 193 + pos * 389 + 71) % 1009
    IN  ((x * x + seed * 7 + pos) \div 7) % 1009

RECURSIVE Nth(_, _)
\* The element number k (from 0) of a finite set, in a fixed order.
Nth(S, k) ==
    LET x == CHOOSE y \in S : TRUE
    IN  IF k = 0 THEN x ELSE Nth(S \ {x}, k - 1)

\* The values that the j-th call of this step can return, when the values a
\* call of that kind can return are those of S.
Choices(S, j) ==
    IF S = {} \/ ~rng.seeded THEN S
    ELSE {Nth(S, Stream(rng.seed, rng.pos + j) % Cardinality(S))}

\* The random module after the n calls of this step.
Advance(n) == IF rng.seeded THEN [rng EXCEPT !.pos = @ + n] ELSE rng

RECURSIVE TotalWeight(_, _)
\* The sum of the weights of the keys.
TotalWeight(choices, keys) ==
    IF keys = {} THEN 0
    ELSE LET x == CHOOSE y \in keys : TRUE
         IN  choices[x] + TotalWeight(choices, keys \ {x})

RECURSIVE AtWeight(_, _, _)
\* The key whose share of the total weight holds the number r.
AtWeight(choices, keys, r) ==
    LET x == CHOOSE y \in keys : TRUE
    IN  IF r < choices[x] \/ keys = {x} THEN x
        ELSE AtWeight(choices, keys \ {x}, r - choices[x])

\* weighted_choice(choices), the j-th call of this step: a key of positive
\* weight; the stream weighs the keys.  Weights are in percent.
weighted_choice(choices, j) ==
    LET keys == {k \in DOMAIN choices : choices[k] > 0}
    IN  IF keys = {} \/ ~rng.seeded THEN keys
        ELSE {AtWeight(choices, keys,
                       Stream(rng.seed, rng.pos + j) % TotalWeight(choices, keys))}

\* The sequences that list the elements of `list' in some order.
Shuffles(list) ==
    {[k \in 1 .. Len(list) |-> list[p[k]]] :
        p \in {q \in [1 .. Len(list) -> 1 .. Len(list)] :
                  \A a, b \in 1 .. Len(list) : a # b => q[a] # q[b]}}

RECURSIVE StreamShuffle(_, _)
\* The order that the stream gives to `list', its calls starting at the j-th.
StreamShuffle(list, j) ==
    IF list = <<>> THEN <<>>
    ELSE LET i == (Stream(rng.seed, rng.pos + j) % Len(list)) + 1
         IN  <<list[i]>> \o StreamShuffle(Remove(list, i), j + 1)

\* Mutant of Shuffled: the last record is lost.
ShuffledShort(list) == {SubSeq(list, 1, Len(list) - 1)}

\* random.shuffle(list): the orders it can leave the list in.
Shuffled(list) ==
    IF rng.seeded THEN {StreamShuffle(list, 0)} ELSE Shuffles(list)

(***************************************************************************)
(* The runtime: datetime.now() and the iteration order of a set of         *)
(* strings (string hashing differs from process to process).               *)
(***************************************************************************)
SetOrders == {"ascending", "descending"}

Envs == [today : 0 .. MaxDayShift, order : SetOrders]

\* The runtime of the scripts that are run alone.
StageEnv == [today |-> 0, order |-> "ascending"]

\* The position of an identifier among identifiers, by number and width.
IdKey(id) == id[3] * 100 + id[2]

RECURSIVE Ascending(_)
\* The identifiers of S, least first.
Ascending(S) ==
    IF S = {} THEN <<>>
    ELSE LET m == CHOOSE x \in S : \A y \in S : IdKey(x) <= IdKey(y)
         IN  <<m>> \o Ascending(S \ {m})

\* The list of the reversed elements.
Reverse(list) == [k \in 1 .. Len(list) |-> list[Len(list) + 1 - k]]

\* `for x in S' / `[x for x in S]' for a set S of identifiers: the order in
\* which this process visits the elements.
SetIteration(S) ==
    IF env.order = "ascending" THEN Ascending(S) ELSE Reverse(Ascending(S))

(***************************************************************************)
(* The output directory.                                                   *)
(***************************************************************************)
EntityFiles == {"branches.tsv", "customers.tsv", "accounts.tsv", "transactions.tsv"}

RelationshipFiles == {"owns_account.tsv", "banks_at.tsv", "transfer_to.tsv",
                      "knows.tsv", "employed_by.tsv", "authorized_user.tsv",
                      "relationships_all.tsv"}

FileNames == EntityFiles \cup RelationshipFiles

Absent == [exists |-> FALSE, rows |-> <<>>]
File(rows) == [exists |-> TRUE, rows |-> rows]
EmptyDir == [f \in FileNames |-> Absent]

\* Mutant of WriteFile: the directory is emptied before the file is written.
WriteFileAlone(dir, name, rows) == [EmptyDir EXCEPT ![name] = File(rows)]

\* open(output_file, 'w') ... writer.writerows(rows)
WriteFile(dir, name, rows) == [dir EXCEPT ![name] = File(rows)]

\* The rows of a file, none if the file does not exist (os.path.exists).
Load(dir, name) == IF dir[name].exists THEN dir[name].rows ELSE <<>>

\* Python's None.
None == "None"

\* The columns of the header that the line of the row is too short to hold:
\* csv.DictReader gives the row None for them (restval).
Filled(row) == IF "filled" \in DOMAIN row THEN row.filled ELSE {}

\* row[key] raises KeyError: the header of the file does not name the column.
KeyError(row, key) == key \notin DOMAIN row /\ key \notin Filled(row)

\* row[key]
Item(row, key) == IF key \in Filled(row) THEN None ELSE row[key]

\* row.get(key)
Get(row, key) == IF KeyError(row, key) THEN None ELSE Item(row, key)

(***************************************************************************)
(* The command line.                                                       *)
(***************************************************************************)
\* The options of all scripts, at values that make a script do nothing.
NoArgs == [branches |-> 0, individual |-> 0, corporate |-> 0, hnw |-> 0,
           days |-> 0, skip_transactions |-> FALSE]

(***************************************************************************)
(* branches.py                                                             *)
(***************************************************************************)
US_BANKING_LOCATIONS == <<
    [city |-> "New York", tier |-> 1, weight |-> 15],
    [city |-> "Los Angeles", tier |-> 1, weight |-> 12],
    [city |-> "Chicago", tier |-> 1, weight |-> 10],
    [city |-> "Houston", tier |-> 1, weight |-> 8],
    [city |-> "San Francisco", tier |-> 1, weight |-> 8],
    [city |-> "Boston", tier |-> 1, weight |-> 7],
    [city |-> "Dallas", tier |-> 1, weight |-> 7],
    [city |-> "Miami", tier |-> 1, weight |-> 6],
    [city |-> "Atlanta", tier |-> 1, weight |-> 6],
    [city |-> "Seattle", tier |-> 1, weight |-> 5],
    [city |-> "Phoenix", tier |-> 2, weight |-> 4],
    [city |-> "Philadelphia", tier |-> 2, weight |-> 4],
    [city |-> "San Diego", tier |-> 2, weight |-> 3],
    [city |-> "Denver", tier |-> 2, weight |-> 4],
    [city |-> "Austin", tier |-> 2, weight |-> 4],
    [city |-> "Charlotte", tier |-> 2, weight |-> 5],
    [city |-> "Minneapolis", tier |-> 2, weight |-> 3],
    [city |-> "Portland", tier |-> 2, weight |-> 3],
    [city |-> "Detroit", tier |-> 2, weight |-> 3],
    [city |-> "Nashville", tier |-> 2, weight |-> 3],
    [city |-> "San Jose", tier |-> 3, weight |-> 3],
    [city |-> "Columbus", tier |-> 3, weight |-> 2],
    [city |-> "Indianapolis", tier |-> 3, weight |-> 2],
    [city |-> "Jacksonville", tier |-> 3, weight |-> 2],
    [city |-> "San Antonio", tier |-> 3, weight |-> 2],
    [city |-> "Fort Worth", tier |-> 3, weight |-> 2],
    [city |-> "Baltimore", tier |-> 3, weight |-> 2],
    [city |-> "Salt Lake City", tier |-> 3, weight |-> 2],
    [city |-> "Kansas City", tier |-> 3, weight |-> 2],
    [city |-> "Las Vegas", tier |-> 3, weight |-> 2],
    [city |-> "Milwaukee", tier |-> 3, weight |-> 2],
    [city |-> "Cleveland", tier |-> 3, weight |-> 2],
    [city |-> "Tampa", tier |-> 3, weight |-> 2],
    [city |-> "Raleigh", tier |-> 3, weight |-> 2],
    [city |-> "Pittsburgh", tier |-> 3, weight |-> 2],
    [city |-> "Cincinnati", tier |-> 4, weight |-> 1],
    [city |-> "St. Louis", tier |-> 4, weight |-> 1],
    [city |-> "Orlando", tier |-> 4, weight |-> 1],
    [city |-> "Sacramento", tier |-> 4, weight |-> 1],
    [city |-> "New Orleans", tier |-> 4, weight |-> 1],
    [city |-> "Tucson", tier |-> 4, weight |-> 1],
    [city |-> "Honolulu", tier |-> 4, weight |-> 1],
    [city |-> "Albuquerque", tier |-> 4, weight |-> 1],
    [city |-> "Omaha", tier |-> 4, weight |-> 1]
>>


NumLocations == Len(US_BANKING_LOCATIONS)

\* BRANCH_TYPES: the weight of every type.
BRANCH_TYPES ==
    ("Headquarters" :> 2) @@ ("Regional Center" :> 8) @@ ("Full Service" :> 40)
    @@ ("Standard" :> 30) @@ ("Express" :> 12) @@ ("In-Store" :> 5)
    @@ ("ATM Only" :> 3)

\* The branch counts of the size presets tiny .. enterprise.
PresetBranchCounts == {10, 25, 75, 150, 500}

\* total_weight = sum(loc["weight"] for loc in US_BANKING_LOCATIONS)
total_weight == SumWeights(US_BANKING_LOCATIONS, NumLocations)

\* count = max(1, int(num_branches * loc["weight"] / total_weight))
LocationCount(num_branches, k) ==
    Max(1, (num_branches * US_BANKING_LOCATIONS[k].weight) \div total_weight)

\* The branch_type argument generate_branches passes for slot i of a location:
\* a forced type, or "None" (generate_branch then samples one).
ForcedBranchTypes(i, location, branch_id) ==
    IF i = 0 /\ location.tier = 1 /\ branch_id = 1 THEN {"Headquarters"}
    ELSE IF i = 0 /\ location.tier <= 2 THEN {"Regional Center", "None"}
    ELSE {"None"}

\* generate_branch: the fields of the record that the model reads.  The type
\* is the forced one, or the one weighted_choice returned.
GenerateBranch(branch_id, k, branch_type, sampled) ==
    [branch_id   |-> FormatId("BR", 5, branch_id),
     city        |-> US_BANKING_LOCATIONS[k].city,
     branch_type |-> IF branch_type = "None" THEN sampled ELSE branch_type]

\* The columns of branches.tsv that a later stage reads back.
BranchRow(b) == [branch_id |-> b.branch_id, city |-> b.city]

BranchFrame(n) ==
    [running |-> TRUE, num_branches |-> n, branch_id |-> 1, loc |-> 1, i |-> 0,
     branches |-> <<>>, branch |-> NoRecord]

\* Mutant of AfterBranches: the customer stage is left out.
AfterBranchesNoCustomers == IF prog = "main" THEN "accounts" ELSE "done"

\* What the script does once generate_branches has returned.
AfterBranches == IF prog = "main" THEN "customers" ELSE "done"

\* Call of generate_branches(num_branches, output_file).
BranchesCall ==
    /\ pc = "branches"
    /\ br = Idle
    /\ br' = BranchFrame(args.branches)
    /\ pc' = "branches_loop"
    /\ UNCHANGED <<prog, args, env, rng, fs, hist, cu, ac, tx, rl>>

\* Mutant of BranchBreak: the break test off by one.
BranchBreakEarly(branch_id, num_branches) == branch_id >= num_branches

\* The break test of both loops: `if branch_id > num_branches: break'.
BranchBreak(branch_id, num_branches) == branch_id > num_branches

\* One pass through the body of the inner loop `for i in range(count)',
\* followed by the loop bookkeeping up to the next pass.
BranchIter ==
    /\ pc = "branches_loop"
    /\ br.loc <= NumLocations
    /\ LET location == US_BANKING_LOCATIONS[br.loc]
           count    == LocationCount(br.num_branches, br.loc)
       IN  \E forced \in Choices(ForcedBranchTypes(br.i, location, br.branch_id), 0),
              sampled \in weighted_choice(BRANCH_TYPES, 1) :
             LET branch == GenerateBranch(br.branch_id, br.loc, forced, sampled)
                 nextId == br.branch_id + 1
                 stop   == BranchBreak(nextId, br.num_branches)
                 last   == br.i + 1 >= count
             IN  br' = [br EXCEPT
                        !.branches = Append(@, BranchRow(branch)),
                        !.branch = branch,
                        !.branch_id = nextId,
                        !.i = IF stop \/ last THEN 0 ELSE @ + 1,
                        !.loc = IF stop THEN NumLocations + 1
                                ELSE IF last THEN @ + 1 ELSE @]
    /\ rng' = Advance(2)
    /\ UNCHANGED <<prog, pc, args, env, fs, hist, cu, ac, tx, rl>>

\* The loops are over: `if branches:' write branches.tsv, then return.
BranchesWrite ==
    /\ pc = "branches_loop"
    /\ br.loc > NumLocations
    /\ fs' = IF br.branches # <<>>
             THEN WriteFile(fs, "branches.tsv", br.branches) ELSE fs
    /\ br' = Idle
    /\ pc' = AfterBranches
    /\ UNCHANGED <<prog, args, env, rng, hist, cu, ac, tx, rl>>

(***************************************************************************)
(* branches.py run as a script: generate_branches(args.num_branches).      *)
(***************************************************************************)
BranchTargets == (1 .. MaxBranchTarget) \cup PresetBranchCounts

\* A script starts: nothing runs, nothing has run before.
Fresh ==
    /\ hist = <<>>
    /\ br = Idle /\ cu = Idle /\ ac = Idle /\ tx = Idle /\ rl = Idle

InitBranches ==
    /\ prog = "branches"
    /\ pc = "branches"
    /\ \E n \in BranchTargets : args = [NoArgs EXCEPT !.branches = n]
    /\ env = StageEnv
    /\ rng = Free
    /\ fs = EmptyDir
    /\ Fresh

NextBranches == BranchesCall \/ BranchIter \/ BranchesWrite

SpecBranches == InitBranches /\ [][NextBranches]_vars

(***************************************************************************)
(* customers.py                                                            *)
(***************************************************************************)
\* kyc_weights of generate_individual_customer
INDIVIDUAL_KYC == [Verified |-> 85, Pending |-> 8, PendingReview |-> 5, Rejected |-> 2]

\* kyc_weights of generate_corporate_customer
CORPORATE_KYC == [Verified |-> 90, Pending |-> 5, PendingReview |-> 4, Rejected |-> 1]

\* kyc_weights of generate_hnw_customer: no "Rejected".
HNW_KYC == [Verified |-> 95, Pending |-> 3, PendingReview |-> 2]

\* Values of random.randint(min_years * 365, max_years * 365) that the model
\* draws: the ends of the range and both sides of every threshold the code
\* compares an age with (90, 365, 1825, 3650 days).
DaysAgoSamples(min_years, max_years) ==
    {d \in {min_years * 365, 89, 90, 364, 365, 1825, 1826, 3650, 3651,
            max_years * 365} :
        min_years * 365 <= d /\ d <= max_years * 365}

\* base_score += random.randint(lo, hi), for every score in S.
Plus(S, lo, hi) == {s + r : s \in S, r \in lo .. hi}

\* base_score -= random.randint(lo, hi), for every score in S.
Minus(S, lo, hi) == {s - r : s \in S, r \in lo .. hi}

\* Mutant of ClampRisk: the result is returned unclamped.
ClampRiskNone(score) == score

\* return max(1, min(100, base_score))
ClampRisk(score) == Max(1, Min(100, score))

\* calculate_risk_score: the set of values it can return.
calculate_risk_score(customer_type, kyc_status, account_age_days) ==
    LET base  == {30}
        typed == IF customer_type = "Individual" THEN Plus(base, -5, 15)
                 ELSE IF customer_type = "Corporate" THEN Plus(base, -10, 10)
                 ELSE IF customer_type = "HighNetWorth" THEN Plus(base, -15, 5)
                 ELSE base
        kyced == IF kyc_status = "Verified" THEN Minus(typed, 5, 15)
                 ELSE IF kyc_status = "Pending" THEN Plus(typed, 10, 25)
                 ELSE IF kyc_status = "PendingReview" THEN Plus(typed, 20, 40)
                 ELSE IF kyc_status = "Rejected" THEN Plus(typed, 40, 60)
                 ELSE typed
        aged  == IF account_age_days < 90 THEN Plus(kyced, 10, 20)
                 ELSE IF account_age_days < 365 THEN Plus(kyced, 0, 10)
                 ELSE IF account_age_days > 1825 THEN Minus(kyced, 5, 15)
                 ELSE kyced
        noisy == Plus(aged, -5, 5)
    IN  {ClampRisk(s) : s \in noisy}

\* "Active" if kyc_status != "Rejected" else "Suspended"
CustomerStatus(kyc_status) ==
    IF kyc_status # "Rejected" THEN "Active" ELSE "Suspended"

\* The three prefixes of customer identifiers.
CustomerId(customer_type, customer_id) ==
    FormatId(IF customer_type = "Individual" THEN "CUST"
             ELSE IF customer_type = "Corporate" THEN "CORP" ELSE "HNW",
             8, customer_id)

\* generate_individual_customer: the records it can return (the fields the
\* model reads).  The account age is the number of days drawn for
\* member_since: member_since is a date, datetime.now() a later time of the
\* day that lies days_ago days after it.
generate_individual_customer(customer_id) ==
    {[customer_id   |-> CustomerId("Individual", customer_id),
      customer_type |-> "Individual",
      kyc_status    |-> kyc,
      risk_score    |-> risk,
      member_since  |-> env.today - days_ago,
      status        |-> CustomerStatus(kyc)] :
        <<kyc, days_ago, risk>> \in
            UNION {{<<k, d, r>> :
                        r \in Choices(calculate_risk_score("Individual", k, d), 2)} :
                   k \in weighted_choice(INDIVIDUAL_KYC, 0),
                   d \in Choices(DaysAgoSamples(0, 15), 1)}}

\* generate_corporate_customer
generate_corporate_customer(customer_id) ==
    {[customer_id   |-> CustomerId("Corporate", customer_id),
      customer_type |-> "Corporate",
      kyc_status    |-> kyc,
      risk_score    |-> risk,
      member_since  |-> env.today - days_ago,
      status        |-> CustomerStatus(kyc)] :
        <<kyc, days_ago, risk>> \in
            UNION {{<<k, d, r>> :
                        r \in Choices(calculate_risk_score("Corporate", k, d), 2)} :
                   k \in weighted_choice(CORPORATE_KYC, 0),
                   d \in Choices(DaysAgoSamples(0, 25), 1)}}

\* The assignments of generate_hnw_customer to the record `customer' that
\* generate_individual_customer returned to it, the draws being the j-th
\* and the next of the step.
HnwOverride(customer, customer_id, j) ==
    {[customer EXCEPT
        !.customer_id   = CustomerId("HighNetWorth", customer_id),
        !.customer_type = "HighNetWorth",
        !.kyc_status    = kyc,
        !.risk_score    = risk] :
        kyc \in weighted_choice(HNW_KYC, j), risk \in Choices(5 .. 35, j + 1)}

\* generate_hnw_customer: an individual customer with customer_id,
\* customer_type, kyc_status and risk_score assigned anew; every other field
\* keeps the value generate_individual_customer gave it.
generate_hnw_customer(customer_id) ==
    UNION {HnwOverride(customer, customer_id, 3) :
              customer \in generate_individual_customer(customer_id)}

\* The columns of customers.tsv that a later stage reads back.
CustomerRow(c) ==
    [customer_id |-> c.customer_id, customer_type |-> c.customer_type,
     member_since |-> c.member_since]

CustomerFrame(ni, nc, nh) ==
    [running |-> TRUE, num_individual |-> ni, num_corporate |-> nc, num_hnw |-> nh,
     customer_id |-> 1, customers |-> <<>>, customer |-> NoRecord,
     hnw |-> NoRecord]

AfterCustomers == IF prog = "main" THEN "accounts" ELSE "done"

\* Call of generate_customers(num_individual, num_corporate, num_hnw, output_file).
CustomersCall ==
    /\ pc = "customers"
    /\ cu = Idle
    /\ cu' = CustomerFrame(args.individual, args.corporate, args.hnw)
    /\ pc' = "customers_loop"
    /\ UNCHANGED <<prog, args, env, rng, fs, hist, br, ac, tx, rl>>

\* The three loops run one after the other: the number of customers made so
\* far tells which one is running.
InIndividualLoop == Len(cu.customers) < cu.num_individual
InCorporateLoop  ==
    /\ ~InIndividualLoop
    /\ Len(cu.customers) < cu.num_individual + cu.num_corporate
InHnwLoop ==
    /\ ~InIndividualLoop
    /\ ~InCorporateLoop
    /\ Len(cu.customers) < cu.num_individual + cu.num_corporate + cu.num_hnw

\* generate_individual_customer(customer_id) returns.
GenIndividual ==
    /\ pc = "customers_loop" /\ cu.customer = NoRecord /\ InIndividualLoop
    /\ \E c \in generate_individual_customer(cu.customer_id) :
          cu' = [cu EXCEPT !.customer = c]
    /\ rng' = Advance(3)
    /\ UNCHANGED <<prog, pc, args, env, fs, hist, br, ac, tx, rl>>

\* generate_corporate_customer(customer_id) returns.
GenCorporate ==
    /\ pc = "customers_loop" /\ cu.customer = NoRecord /\ InCorporateLoop
    /\ \E c \in generate_corporate_customer(cu.customer_id) :
          cu' = [cu EXCEPT !.customer = c]
    /\ rng' = Advance(3)
    /\ UNCHANGED <<prog, pc, args, env, fs, hist, br, ac, tx, rl>>

\* generate_hnw_customer(customer_id) is called: the record that
\* generate_individual_customer returns is its local `customer'.
GenHnw ==
    /\ pc = "customers_loop" /\ cu.customer = NoRecord /\ InHnwLoop
    /\ cu.hnw = NoRecord
    /\ \E c \in generate_individual_customer(cu.customer_id) :
          cu' = [cu EXCEPT !.hnw = c]
    /\ rng' = Advance(3)
    /\ UNCHANGED <<prog, pc, args, env, fs, hist, br, ac, tx, rl>>

\* generate_hnw_customer assigns to its record and returns it.
HnwReturn ==
    /\ pc = "customers_loop" /\ cu.customer = NoRecord
    /\ cu.hnw # NoRecord
    /\ \E c \in HnwOverride(cu.hnw, cu.customer_id, 0) :
          cu' = [cu EXCEPT !.customer = c, !.hnw = NoRecord]
    /\ rng' = Advance(2)
    /\ UNCHANGED <<prog, pc, args, env, fs, hist, br, ac, tx, rl>>

\* Mutant of NextCustomerId: the number is used again.
SameCustomerId(customer_id) == customer_id

\* customer_id += 1
NextCustomerId(customer_id) == customer_id + 1

\* customers.append(...); customer_id += 1
AppendCustomer ==
    /\ pc = "customers_loop" /\ cu.customer # NoRecord
    /\ cu' = [cu EXCEPT !.customers = Append(@, CustomerRow(cu.customer)),
                        !.customer_id = NextCustomerId(@),
                        !.customer = NoRecord]
    /\ UNCHANGED <<prog, pc, args, env, rng, fs, hist, br, ac, tx, rl>>

\* random.shuffle(customers); `if customers:' write customers.tsv; return.
CustomersWrite ==
    /\ pc = "customers_loop" /\ cu.customer = NoRecord
    /\ ~InIndividualLoop /\ ~InCorporateLoop /\ ~InHnwLoop
    /\ \E shuffled \in Shuffled(cu.customers) :
          fs' = IF shuffled # <<>>
                THEN WriteFile(fs, "customers.tsv", shuffled) ELSE fs
    /\ rng' = Advance(Len(cu.customers))
    /\ cu' = Idle
    /\ pc' = AfterCustomers
    /\ UNCHANGED <<prog, args, env, hist, br, ac, tx, rl>>

(***************************************************************************)
(* customers.py run as a script.                                           *)
(***************************************************************************)
CustomerCounts == 0 .. MaxCustomersPerType

InitCustomers ==
    /\ prog = "customers"
    /\ pc = "customers"
    /\ \E ni, nc, nh \in CustomerCounts :
          args = [NoArgs EXCEPT !.individual = ni, !.corporate = nc, !.hnw = nh]
    /\ env = StageEnv
    /\ rng = Free
    /\ fs = EmptyDir
    /\ Fresh

NextCustomers ==
    \/ CustomersCall
    \/ GenIndividual
    \/ GenCorporate
    \/ GenHnw
    \/ HnwReturn
    \/ AppendCustomer
    \/ CustomersWrite

SpecCustomers == InitCustomers /\ [][NextCustomers]_vars

(***************************************************************************)
(* accounts.py                                                             *)
(***************************************************************************)
\* ACCOUNT_TYPES: min_balance and max_balance in dollars, and the weight.
ACCOUNT_TYPES ==
    [Checking     |-> [min_balance |-> 0,      max_balance |-> 50000,   weight |-> 35],
     Savings      |-> [min_balance |-> 0,      max_balance |-> 250000,  weight |-> 25],
     CD           |-> [min_balance |-> 1000,   max_balance |-> 500000,  weight |-> 8],
     CreditCard   |-> [min_balance |-> -50000, max_balance |-> 0,       weight |-> 15],
     Mortgage     |-> [min_balance |-> 50000,  max_balance |-> 2000000, weight |-> 7],
     AutoLoan     |-> [min_balance |-> 5000,   max_balance |-> 100000,  weight |-> 5],
     PersonalLoan |-> [min_balance |-> 1000,   max_balance |-> 50000,   weight |-> 3],
     Investment   |-> [min_balance |-> 0,      max_balance |-> 5000000, weight |-> 2]]

AccountTypeNames == DOMAIN ACCOUNT_TYPES

\* ACCOUNT_TYPES["CreditCard"]["credit_limit"], in dollars.
CREDIT_LIMITS == {1000, 5000, 10000, 25000, 50000, 100000}

\* ACCOUNT_STATUS: the weight of every status.
ACCOUNT_STATUS ==
    [Active |-> 88, Dormant |-> 5, Closed |-> 3, Frozen |-> 2, Pending |-> 2]

LOAN_TYPES == {"Mortgage", "AutoLoan", "PersonalLoan"}

\* Dollars as cents.
Cents(dollars) == dollars * 100

\* round(dollars * percent / 100, 2), in cents.
PercentOf(dollars, percent) == dollars * percent

\* Values of random.uniform(0.1, 0.7) that the model draws, in percent.
UtilizationSamples == {10, 40, 70}

\* Values of random.uniform(0.2, 0.95) that the model draws, in percent.
RemainingSamples == {20, 95}

\* base_amounts of the CD branch, in dollars.
CD_BASE_AMOUNTS == {1000, 5000, 10000, 25000, 50000, 100000, 250000}

\* Values of random.lognormvariate(8, 1.5) that the model draws, in cents:
\* any positive amount can come; small ones, and one above the ceiling.
LognormSamples(max_bal) == {0, 1, Cents(max_bal), Cents(max_bal) + 1}

\* generate_balance: the balances it can return, in cents.
generate_balance(account_type) ==
    LET min_bal == ACCOUNT_TYPES[account_type].min_balance
        max_bal == ACCOUNT_TYPES[account_type].max_balance
    IN  IF account_type = "CreditCard" THEN
            UNION {IF paid_off THEN {0}
                   ELSE {-PercentOf(credit_limit, utilization) :
                            credit_limit \in Choices(CREDIT_LIMITS, 1),
                            utilization \in Choices(UtilizationSamples, 2)} :
                   paid_off \in Choices(BOOLEAN, 0)}
        ELSE IF account_type \in LOAN_TYPES THEN
            {PercentOf(original_amount, remaining_percent) :
                original_amount \in Choices({min_bal, max_bal}, 0),
                remaining_percent \in Choices(RemainingSamples, 1)}
        ELSE IF account_type = "CD" THEN
            {Cents(b) : b \in Choices({a \in CD_BASE_AMOUNTS :
                                          min_bal <= a /\ a <= max_bal}, 0)}
        ELSE IF account_type = "Investment" THEN
            {Cents(b) : b \in Choices({0, 10000, 100000, max_bal}, 0)}
        ELSE
            {Min(Max(balance, Cents(min_bal)), Cents(max_bal)) :
                balance \in Choices(LognormSamples(max_bal), 0)}

\* Mutant of AvailableCredit: the amount owed is added, as in
\* available_balance.
AvailableCreditAbs(credit_limit, balance) ==
    credit_limit + (IF balance < 0 THEN -balance ELSE balance)

\* account["available_credit"] = credit_limit + balance
AvailableCredit(credit_limit, balance) == credit_limit + balance

\* generate_account: the records it can return (the fields the model reads).
\* A CreditCard record has a credit_limit, drawn anew, and an
\* available_credit.
generate_account(account_id, customer_id, branch_id, account_type) ==
    UNION {
        LET account == [account_id   |-> FormatId("ACC", 10, account_id),
                        customer_id  |-> customer_id,
                        branch_id    |-> branch_id,
                        account_type |-> account_type,
                        status       |-> status,
                        balance      |-> balance]
        IN  IF account_type = "CreditCard"
            THEN {[account_id       |-> account.account_id,
                   customer_id      |-> account.customer_id,
                   branch_id        |-> account.branch_id,
                   account_type     |-> account.account_type,
                   status           |-> account.status,
                   balance          |-> account.balance,
                   credit_limit     |-> Cents(credit_limit),
                   available_credit |-> AvailableCredit(Cents(credit_limit), balance)] :
                     credit_limit \in Choices(CREDIT_LIMITS, 4)}
            ELSE {account} :
        balance \in generate_balance(account_type),
        status \in weighted_choice(ACCOUNT_STATUS, 3)}

\* The columns of accounts.tsv that a later stage reads back.
AccountRow(a) ==
    [account_id |-> a.account_id, customer_id |-> a.customer_id,
     branch_id |-> a.branch_id, account_type |-> a.account_type,
     status |-> a.status]

\* The two columns load_customers keeps of a row.
LoadedCustomer(row) ==
    [customer_id   |-> Item(row, "customer_id"),
     customer_type |-> Item(row, "customer_type")]

\* row["customer_id"] or row["customer_type"] raises for a row of the file.
CustomersKeyError(dir) ==
    \E row \in Range(Load(dir, "customers.tsv")) :
       KeyError(row, "customer_id") \/ KeyError(row, "customer_type")

\* row["branch_id"] raises for a row of the file.
BranchesKeyError(dir) ==
    \E row \in Range(Load(dir, "branches.tsv")) : KeyError(row, "branch_id")

\* load_customers(customers_file)
load_customers(dir) ==
    LET rows == Load(dir, "customers.tsv")
    IN  [k \in 1 .. Len(rows) |-> LoadedCustomer(rows[k])]

\* The column load_branches keeps of a row.
LoadedBranch(row) == Item(row, "branch_id")

\* load_branches(branches_file)
load_branches(dir) ==
    LET rows == Load(dir, "branches.tsv")
    IN  [k \in 1 .. Len(rows) |-> LoadedBranch(rows[k])]

\* customers = [{"customer_id": f"CUST-{i:08d}", ...} for i in range(1, 1001)]
PlaceholderCustomers ==
    [i \in 1 .. NumPlaceholderCustomers |->
        [customer_id |-> FormatId("CUST", 8, i), customer_type |-> "Individual"]]

\* branches = ["BR-0001"]
PlaceholderBranches == <<FormatId("BR", 4, 1)>>

\* The largest number of accounts that a customer of this run is given,
\* unless the least number the code can draw is larger.
AccountCap ==
    IF ~rng.seeded THEN MaxAccountsPerCustomer
    ELSE IF prog = "main" THEN MaxAccountsPerCustomerSeeded
    ELSE MaxAccountsPerCustomerAlone

\* random.randint(lo, hi): the numbers that the model draws.
Capped(lo, hi) == {n \in lo .. hi : n <= Max(lo, AccountCap)}

\* Mutant of ClampAccounts: the number is not cut down to 6.
ClampAccountsNone(n) == Max(1, n)

\* num_accounts = max(1, int(random.expovariate(...)));
\* num_accounts = min(num_accounts, 6)
ClampAccounts(n) == Min(Max(1, n), 6)

\* num_accounts of a customer: random.randint(2, 8), random.randint(3, 10),
\* or the clamped int(random.expovariate(...)), which can be any number
\* from 0 on.
NumAccounts(customer_type) ==
    IF customer_type = "Corporate" THEN Capped(2, 8)
    ELSE IF customer_type = "HighNetWorth" THEN Capped(3, 10)
    ELSE {ClampAccounts(n) : n \in 0 .. AccountCap}

\* account_types of a customer: a list, empty for None.
AccountTypesOf(customer_type) ==
    IF customer_type = "Corporate"
    THEN <<"Checking", "Checking", "CreditCard", "Savings">>
    ELSE IF customer_type = "HighNetWorth"
    THEN <<"Checking", "Savings", "Investment", "CreditCard", "CD">>
    ELSE <<>>

\* The account_type generate_account works with, the 6th draw of the step:
\* random.choice(account_types), or a type by weight (acct_type is None).
AccountTypeDrawn(account_types) ==
    IF account_types # <<>>
    THEN {account_types[i] : i \in Choices(1 .. Len(account_types), 5)}
    ELSE weighted_choice([t \in AccountTypeNames |-> ACCOUNT_TYPES[t].weight], 5)

AccountFrame(customers, branches) ==
    [running |-> TRUE, customers |-> customers, branches |-> branches,
     k |-> 0, customer_type |-> "None", customer_id |-> NoRecord,
     branch_id |-> NoRecord, num_accounts |-> 0, i |-> 0,
     account_id |-> 1, accounts |-> <<>>, account |-> NoRecord,
     warnings |-> <<>>]

\* Mutant of OrPlaceholder: what was loaded is used, even if it is empty.
NeverPlaceholder(loaded, placeholder) == loaded

\* Mutant of OrPlaceholder: the placeholder is used whatever was loaded.
AlwaysPlaceholder(loaded, placeholder) == placeholder

\* `if not customers: customers = [...]' / `if not branches: branches = [...]'
OrPlaceholder(loaded, placeholder) ==
    IF loaded = <<>> THEN placeholder ELSE loaded

AfterAccounts == IF prog = "main" THEN "transactions" ELSE "done"

\* print("Warning: ...") of the two `if not ...:' tests, in their order.
PlaceholderWarnings(customers, branches) ==
    (IF customers = <<>>
     THEN <<"Warning: No customers found. Generating with placeholder IDs.">>
     ELSE <<>>)
    \o (IF branches = <<>>
        THEN <<"Warning: No branches found. Using placeholder branch.">>
        ELSE <<>>)

\* Call of generate_accounts: both files are loaded, placeholders are made.
AccountsCall ==
    /\ pc = "accounts"
    /\ ac = Idle
    /\ ~CustomersKeyError(fs) /\ ~BranchesKeyError(fs)
    /\ ac' = [AccountFrame(OrPlaceholder(load_customers(fs), PlaceholderCustomers),
                           OrPlaceholder(load_branches(fs), PlaceholderBranches))
                 EXCEPT !.warnings = PlaceholderWarnings(load_customers(fs),
                                                         load_branches(fs))]
    /\ pc' = "accounts_loop"
    /\ UNCHANGED <<prog, args, env, rng, fs, hist, br, cu, tx, rl>>

\* load_customers or load_branches raises KeyError: nothing catches it, the
\* process ends with a traceback.
AccountsKeyError ==
    /\ pc = "accounts"
    /\ ac = Idle
    /\ CustomersKeyError(fs) \/ BranchesKeyError(fs)
    /\ pc' = "KeyError"
    /\ UNCHANGED <<prog, args, env, rng, fs, hist, br, cu, ac, tx, rl>>

\* `for customer in customers:' the head of the body: one branch and the
\* number of accounts are drawn for the customer.
AccountsCustomer ==
    /\ pc = "accounts_loop" /\ ac.account = NoRecord
    /\ ac.i = ac.num_accounts
    /\ ac.k < Len(ac.customers)
    /\ LET customer == ac.customers[ac.k + 1]
       IN  \E b \in Choices(1 .. Len(ac.branches), 0),
              n \in Choices(NumAccounts(customer.customer_type), 1) :
             ac' = [ac EXCEPT !.k = @ + 1,
                              !.customer_id = customer.customer_id,
                              !.customer_type = customer.customer_type,
                              !.branch_id = ac.branches[b],
                              !.num_accounts = n,
                              !.i = 0]
    /\ rng' = Advance(2)
    /\ UNCHANGED <<prog, pc, args, env, fs, hist, br, cu, tx, rl>>

\* `for i in range(num_accounts):' generate_account(...) returns.
AccountsGen ==
    /\ pc = "accounts_loop" /\ ac.account = NoRecord
    /\ ac.i < ac.num_accounts
    /\ \E acct_type \in AccountTypeDrawn(AccountTypesOf(ac.customer_type)) :
       \E account \in generate_account(ac.account_id, ac.customer_id,
                                       ac.branch_id, acct_type) :
          ac' = [ac EXCEPT !.account = account]
    /\ rng' = Advance(6)
    /\ UNCHANGED <<prog, pc, args, env, fs, hist, br, cu, tx, rl>>

\* accounts.append(account); account_id += 1
AccountsAppend ==
    /\ pc = "accounts_loop" /\ ac.account # NoRecord
    /\ ac' = [ac EXCEPT !.accounts = Append(@, AccountRow(ac.account)),
                        !.account_id = @ + 1,
                        !.i = @ + 1,
                        !.account = NoRecord]
    /\ UNCHANGED <<prog, pc, args, env, rng, fs, hist, br, cu, tx, rl>>

\* The loop is over: `if accounts:' write accounts.tsv, then return.
AccountsWrite ==
    /\ pc = "accounts_loop" /\ ac.account = NoRecord
    /\ ac.i = ac.num_accounts
    /\ ac.k = Len(ac.customers)
    /\ fs' = IF ac.accounts # <<>>
             THEN WriteFile(fs, "accounts.tsv", ac.accounts) ELSE fs
    /\ ac' = Idle
    /\ pc' = AfterAccounts
    /\ UNCHANGED <<prog, args, env, rng, hist, br, cu, tx, rl>>

(***************************************************************************)
(* accounts.py run as a script, on the files that branches.py and          *)
(* customers.py leave: either file may be missing.                         *)
(***************************************************************************)
\* The branches.tsv that generate_branches(n) writes, for a small n: one
\* branch in each of the first n cities.
BranchFile(n) ==
    [k \in 1 .. n |-> BranchRow(GenerateBranch(k, k, "None", "Standard"))]

\* The customers.tsv files of n rows that generate_customers can write: the
\* numbers 1 .. n in any order, each with a type and a date.
CustomerFiles(n) ==
    {[k \in 1 .. n |-> CustomerRow([customer_id   |-> CustomerId(type[k], number[k]),
                                    customer_type |-> type[k],
                                    member_since  |-> StageEnv.today - 365 * number[k]])] :
        type \in [1 .. n -> {"Individual", "Corporate", "HighNetWorth"}],
        number \in {p \in [1 .. n -> 1 .. n] :
                       \A a, b \in 1 .. n : a # b => p[a] # p[b]}}

\* The directories accounts.py is started in: each file is missing, holds
\* the header only, or is as its stage writes it.
AccountInputs ==
    {[EmptyDir EXCEPT !["branches.tsv"] = b, !["customers.tsv"] = c] :
        b \in {Absent, File(<<>>)}
              \cup {File(BranchFile(n)) : n \in 1 .. MaxInputBranches},
        c \in {Absent, File(<<>>)} \cup
              UNION {{File(f) : f \in CustomerFiles(n)} : n \in 1 .. MaxInputCustomers}}

InitAccounts ==
    /\ prog = "accounts"
    /\ pc = "accounts"
    /\ args = NoArgs
    /\ env = StageEnv
    /\ rng \in {Free} \cup {Seeded(seed) : seed \in 0 .. MaxSeed}
    /\ fs \in AccountInputs
    /\ Fresh

NextAccounts ==
    \/ AccountsCall
    \/ AccountsCustomer
    \/ AccountsGen
    \/ AccountsAppend
    \/ AccountsWrite

SpecAccounts == InitAccounts /\ [][NextAccounts]_vars

(***************************************************************************)
(* transactions.py                                                         *)
(***************************************************************************)
\* TRANSACTION_TYPES: amount_range in cents, and the weight.
TRANSACTION_TYPES ==
    [Deposit    |-> [min_amt |-> 1000, max_amt |-> 5000000, weight |-> 15],
     Withdrawal |-> [min_amt |-> 2000, max_amt |-> 1000000, weight |-> 12],
     Transfer   |-> [min_amt |-> 100,  max_amt |-> 2500000, weight |-> 18],
     Payment    |-> [min_amt |-> 2500, max_amt |-> 500000,  weight |-> 15],
     Purchase   |-> [min_amt |-> 100,  max_amt |-> 200000,  weight |-> 30],
     Fee        |-> [min_amt |-> 200,  max_amt |-> 5000,    weight |-> 5],
     Interest   |-> [min_amt |-> 1,    max_amt |-> 100000,  weight |-> 3],
     Refund     |-> [min_amt |-> 500,  max_amt |-> 50000,   weight |-> 2]]

\* TRANSACTION_STATUS: the weight of every status.
TRANSACTION_STATUS ==
    [Completed |-> 92, Pending |-> 4, Failed |-> 2, Reversed |-> 1, Disputed |-> 1]

\* Mutant of TypeWeights: a card has the weights of the other types.
TypeWeightsOther(account_type) ==
    [Deposit |-> 30, Withdrawal |-> 20, Transfer |-> 25, Payment |-> 15,
     Fee |-> 5, Interest |-> 5]

\* type_weights of generate_transaction
TypeWeights(account_type) ==
    IF account_type = "CreditCard"
    THEN [Purchase |-> 60, Payment |-> 25, Fee |-> 5, Interest |-> 5, Refund |-> 5]
    ELSE IF account_type = "Checking"
    THEN [t \in DOMAIN TRANSACTION_TYPES |-> TRANSACTION_TYPES[t].weight]
    ELSE IF account_type = "Savings"
    THEN [Deposit |-> 35, Withdrawal |-> 20, Transfer |-> 30, Interest |-> 10,
          Fee |-> 5]
    ELSE [Deposit |-> 30, Withdrawal |-> 20, Transfer |-> 25, Payment |-> 15,
          Fee |-> 5, Interest |-> 5]

\* generate_amount: the amounts the model draws, in cents.  The default
\* branch clamps a log-normal value to the amount_range of the type; a
\* purchase clamps a normal value to 1 .. max_amt; a fee can be 0 ("Monthly
\* Fee"); a loan payment goes up to 2000.
generate_amount(tx_type) ==
    LET range == TRANSACTION_TYPES[tx_type]
    IN  IF tx_type = "Purchase" THEN {100, range.max_amt}
        ELSE IF tx_type = "Fee" THEN {0, range.min_amt, range.max_amt}
        ELSE IF tx_type = "Payment" THEN {range.min_amt, 200000, range.max_amt}
        ELSE {range.min_amt, Min(500001, range.max_amt), range.max_amt}

\* Values of random.randint(0, days_back) that the model draws.
TxDaysAgoSamples(days_back) == {0, days_back}

\* Hours of the day that the model draws.
HourSamples == {5, 12}

\* Mutant of ClampTxRisk: the score is returned as it was added up.
ClampTxRiskNone(risk_score) == risk_score

\* return min(100, risk_score), flags
ClampTxRisk(risk_score) == Min(100, risk_score)

\* Mutant of AmountRisk: the higher band is tested first.
AmountRiskBanded(amount) ==
    IF amount > Cents(10000) THEN [score |-> 40, flags |-> <<"Very_High_Amount">>]
    ELSE IF amount > Cents(5000) THEN [score |-> 20, flags |-> <<"High_Amount">>]
    ELSE [score |-> 0, flags |-> <<>>]

\* `if amount > 5000: ... elif amount > 10000: ...' what is added to the
\* score and to the flags.
AmountRisk(amount) ==
    IF amount > Cents(5000) THEN [score |-> 20, flags |-> <<"High_Amount">>]
    ELSE IF amount > Cents(10000) THEN [score |-> 40, flags |-> <<"Very_High_Amount">>]
    ELSE [score |-> 0, flags |-> <<>>]

\* calculate_risk_score of transactions.py: the flags it returns.
TxRiskFlags(amount, hour, is_international, velocity, suspicious) ==
    AmountRisk(amount).flags
    \o (IF hour < 6 \/ hour > 23 THEN <<"Unusual_Time">> ELSE <<>>)
    \o (IF is_international THEN <<"International">> ELSE <<>>)
    \o (IF velocity THEN <<"Velocity_Spike">> ELSE <<>>)
    \o (IF suspicious THEN <<"Suspicious_Pattern">> ELSE <<>>)

\* calculate_risk_score of transactions.py: the score it returns.
TxRiskScore(amount, tx_type, hour, is_international, velocity, suspicious) ==
    LET amount_risk == AmountRisk(amount).score
        time_risk   == IF hour < 6 \/ hour > 23 THEN 15 ELSE 0
        type_risk   == (IF tx_type = "Transfer" /\ amount > Cents(5000) THEN 10 ELSE 0)
                       + (IF tx_type = "Withdrawal" /\ amount > Cents(3000) THEN 10 ELSE 0)
        intl_risk   == IF is_international THEN 25 ELSE 0
        velocity_risk   == IF velocity THEN 30 ELSE 0
        suspicious_risk == IF suspicious THEN 40 ELSE 0
    IN  ClampTxRisk(amount_risk + time_risk + type_risk + intl_risk
                    + velocity_risk + suspicious_risk)

\* generate_transaction: the records it can return (the fields the model
\* reads).
generate_transaction(tx_id, account_id, account_type, days_back) ==
    UNION {
        {[transaction_id   |-> FormatId("TXN", 12, tx_id),
          account_id       |-> account_id,
          transaction_type |-> tx_type,
          amount           |-> amount,
          transaction_date |-> env.today - days_ago,
          transaction_time |-> hour,
          status           |-> status,
          risk_score       |-> TxRiskScore(amount, tx_type, hour, intl, vel, susp),
          risk_flags       |-> TxRiskFlags(amount, hour, intl, vel, susp),
          is_flagged       |-> TxRiskScore(amount, tx_type, hour, intl, vel, susp) > 50] :
            amount \in Choices(generate_amount(tx_type), 3),
            intl \in Choices(BOOLEAN, 4),
            vel \in Choices(BOOLEAN, 5),
            susp \in Choices(BOOLEAN, 6),
            status \in weighted_choice(TRANSACTION_STATUS, 7)} :
        tx_type \in weighted_choice(TypeWeights(account_type), 0),
        days_ago \in Choices(TxDaysAgoSamples(days_back), 1),
        hour \in Choices(HourSamples, 2)}

\* The columns of transactions.tsv that a later stage reads back.
TransactionRow(t) ==
    [transaction_id |-> t.transaction_id, account_id |-> t.account_id,
     transaction_type |-> t.transaction_type, amount |-> t.amount,
     transaction_date |-> t.transaction_date,
     transaction_time |-> t.transaction_time, status |-> t.status]

\* The two columns load_accounts keeps of a row.
LoadedAccount(row) ==
    [account_id   |-> Item(row, "account_id"),
     account_type |-> Item(row, "account_type")]

\* if row.get("status") == "Active"
IsActive(row) == Get(row, "status") = "Active"

\* row["account_id"] or row["account_type"] raises for an Active row.
AccountsFileKeyError(dir) ==
    \E row \in Range(Load(dir, "accounts.tsv")) :
       IsActive(row) /\ (KeyError(row, "account_id") \/ KeyError(row, "account_type"))

\* load_accounts(accounts_file)
load_accounts(dir) ==
    LET rows == SelectSeq(Load(dir, "accounts.tsv"), IsActive)
    IN  [k \in 1 .. Len(rows) |-> LoadedAccount(rows[k])]

\* accounts = [{"account_id": f"ACC-{i:010d}", "account_type": "Checking"}
\*             for i in range(1, 101)]
PlaceholderAccounts ==
    [i \in 1 .. NumPlaceholderAccounts |->
        [account_id |-> FormatId("ACC", 10, i), account_type |-> "Checking"]]

\* num_tx = max(1, int(random.gauss(...))): any number from 1 on can come.
NumTx == {n \in 1 .. Max(MaxTxPerAccount, MaxTxPerAccountSeeded) :
             n <= (IF rng.seeded THEN MaxTxPerAccountSeeded ELSE MaxTxPerAccount)}

\* x["transaction_date"], x["transaction_time"] of a is not after that of b.
NotAfter(a, b) ==
    \/ a.transaction_date < b.transaction_date
    \/ /\ a.transaction_date = b.transaction_date
       /\ a.transaction_time <= b.transaction_time

\* Mutant of InsertSorted: the row is put at the end.
InsertLast(sorted, row) == Append(sorted, row)

\* The sorted list `sorted' with one more row, put after the rows that are
\* not after it.
InsertSorted(sorted, row) ==
    LET before == {k \in 0 .. Len(sorted) :
                      \A j \in 1 .. k : NotAfter(sorted[j], row)}
        at == CHOOSE k \in before : \A j \in before : j <= k
    IN  SubSeq(sorted, 1, at) \o <<row>> \o SubSeq(sorted, at + 1, Len(sorted))

RECURSIVE SortByDateTime(_)
\* transactions.sort(key=lambda x: (x["transaction_date"], x["transaction_time"]))
SortByDateTime(list) ==
    IF list = <<>> THEN <<>>
    ELSE InsertSorted(SortByDateTime(SubSeq(list, 1, Len(list) - 1)),
                      list[Len(list)])

TransactionFrame(accounts, days_back) ==
    [running |-> TRUE, accounts |-> accounts, days_back |-> days_back,
     k |-> 0, account_id |-> NoRecord, account_type |-> "None",
     num_tx |-> 0, i |-> 0, tx_id |-> 1, transactions |-> <<>>,
     transaction |-> NoRecord]

\* Call of generate_transactions: the accounts are loaded, placeholders are
\* made if there is none.
TransactionsCall ==
    /\ pc = "transactions"
    /\ ~args.skip_transactions
    /\ tx = Idle
    /\ ~AccountsFileKeyError(fs)
    /\ tx' = TransactionFrame(OrPlaceholder(load_accounts(fs), PlaceholderAccounts),
                              args.days)
    /\ pc' = "transactions_loop"
    /\ UNCHANGED <<prog, args, env, rng, fs, hist, br, cu, ac, rl>>

\* load_accounts raises KeyError: nothing catches it, the process ends with
\* a traceback.
TransactionsKeyError ==
    /\ pc = "transactions"
    /\ ~args.skip_transactions
    /\ tx = Idle
    /\ AccountsFileKeyError(fs)
    /\ pc' = "KeyError"
    /\ UNCHANGED <<prog, args, env, rng, fs, hist, br, cu, ac, tx, rl>>

\* --skip-transactions: the orchestrator writes the header line only.
TransactionsSkip ==
    /\ pc = "transactions"
    /\ args.skip_transactions
    /\ fs' = WriteFile(fs, "transactions.tsv", <<>>)
    /\ pc' = "relationships"
    /\ UNCHANGED <<prog, args, env, rng, hist, br, cu, ac, tx, rl>>

\* `for account in accounts:' the head of the body: num_tx is drawn.
TransactionsAccount ==
    /\ pc = "transactions_loop" /\ tx.transaction = NoRecord
    /\ tx.i = tx.num_tx
    /\ tx.k < Len(tx.accounts)
    /\ LET account == tx.accounts[tx.k + 1]
       IN  \E n \in Choices(NumTx, 0) :
             tx' = [tx EXCEPT !.k = @ + 1,
                              !.account_id = account.account_id,
                              !.account_type = account.account_type,
                              !.num_tx = n,
                              !.i = 0]
    /\ rng' = Advance(1)
    /\ UNCHANGED <<prog, pc, args, env, fs, hist, br, cu, ac, rl>>

\* `for _ in range(num_tx):' generate_transaction(...) returns.
TransactionsGen ==
    /\ pc = "transactions_loop" /\ tx.transaction = NoRecord
    /\ tx.i < tx.num_tx
    /\ \E t \in generate_transaction(tx.tx_id, tx.account_id, tx.account_type,
                                     tx.days_back) :
          tx' = [tx EXCEPT !.transaction = t]
    /\ rng' = Advance(8)
    /\ UNCHANGED <<prog, pc, args, env, fs, hist, br, cu, ac, rl>>

\* transactions.append(tx); tx_id += 1
TransactionsAppend ==
    /\ pc = "transactions_loop" /\ tx.transaction # NoRecord
    /\ tx' = [tx EXCEPT !.transactions = Append(@, TransactionRow(tx.transaction)),
                        !.tx_id = @ + 1,
                        !.i = @ + 1,
                        !.transaction = NoRecord]
    /\ UNCHANGED <<prog, pc, args, env, rng, fs, hist, br, cu, ac, rl>>

AfterTransactions == IF prog = "main" THEN "relationships" ELSE "done"

\* The loop is over: the list is sorted; `if transactions:' write
\* transactions.tsv, then return.
TransactionsWrite ==
    /\ pc = "transactions_loop" /\ tx.transaction = NoRecord
    /\ tx.i = tx.num_tx
    /\ tx.k = Len(tx.accounts)
    /\ fs' = IF tx.transactions # <<>>
             THEN WriteFile(fs, "transactions.tsv", SortByDateTime(tx.transactions))
             ELSE fs
    /\ tx' = Idle
    /\ pc' = AfterTransactions
    /\ UNCHANGED <<prog, args, env, rng, hist, br, cu, ac, rl>>

(***************************************************************************)
(* transactions.py run as a script, on an accounts.tsv that accounts.py    *)
(* leaves: the accounts have the numbers 1 .. n in this order, any types   *)
(* and any statuses.  All seeds are explored on the files of one row, some *)
(* seeds on all files.                                                     *)
(***************************************************************************)
\* Account types of the input files: one for each case generate_transactions
\* and generate_transaction tell apart.
InputAccountTypes == {"Checking", "CreditCard", "Savings", "CD"}

AccountFiles(n) ==
    {[k \in 1 .. n |->
        AccountRow([account_id   |-> FormatId("ACC", 10, k),
                    customer_id  |-> CustomerId("Individual", 1),
                    branch_id    |-> FormatId("BR", 5, 1),
                    account_type |-> type[k],
                    status       |-> status[k]])] :
        type \in [1 .. n -> InputAccountTypes],
        status \in [1 .. n -> DOMAIN ACCOUNT_STATUS]}

Seeds == 0 .. MaxSeed

\* The default of --days.
DefaultDays == 365

InitTransactions ==
    /\ prog = "transactions"
    /\ pc = "transactions"
    /\ args = [NoArgs EXCEPT !.days = DefaultDays]
    /\ env = StageEnv
    /\ \E n \in 0 .. MaxInputAccounts :
          /\ fs \in IF n = 0 THEN {EmptyDir}
                    ELSE {[EmptyDir EXCEPT !["accounts.tsv"] = File(f)] :
                             f \in AccountFiles(n)}
          /\ rng \in (IF n <= 1 THEN {Free} ELSE {}) \cup {Seeded(s) : s \in Seeds}
    /\ Fresh

NextTransactions ==
    \/ TransactionsCall
    \/ TransactionsAccount
    \/ TransactionsGen
    \/ TransactionsAppend
    \/ TransactionsWrite

SpecTransactions == InitTransactions /\ [][NextTransactions]_vars

(***************************************************************************)
(* relationships.py                                                        *)
(***************************************************************************)
\* One relationship record: the columns every record has.
Relationship(prefix, n, relationship_type, source_type, source_id, target_type, target_id) ==
    [relationship_id   |-> FormatId(prefix, 8, n),
     relationship_type |-> relationship_type,
     source_type       |-> source_type,
     source_id         |-> source_id,
     target_type       |-> target_type,
     target_id         |-> target_id]

\* load_tsv(file_path)
load_tsv(dir, name) == Load(dir, name)

\* customer_accounts[customer_id]: the accounts of the customer, in file order.
CustomerAccounts(accounts, customer_id) ==
    SelectSeq(accounts, LAMBDA acc : acc.customer_id = customer_id)

\* Mutant of IsPrimary: every account is the primary one.
IsPrimaryAlways(i) == "Y"

\* "is_primary": "Y" if i == 0 else "N", for the i-th account from 1.
IsPrimary(i) == IF i = 1 THEN "Y" ELSE "N"

\* The ownership_percentage values of the n accounts of a customer:
\* 100 if customer["customer_type"] != "Corporate" else random.choice([100, 50, 33])
OwnershipPercentages(customer, n) ==
    IF customer.customer_type # "Corporate" THEN {[i \in 1 .. n |-> 100]}
    ELSE {p \in [1 .. n -> {100, 50, 33}] :
             \A i \in 1 .. n : p[i] \in Choices({100, 50, 33}, i - 1)}

\* generate_customer_account_relationships: the OWNS records of one customer,
\* the list having n records so far.
OwnsOf(customer, accounts, n, percentage) ==
    LET accts == CustomerAccounts(accounts, customer.customer_id)
    IN  [i \in 1 .. Len(accts) |->
            Relationship("REL-OWN", n + i, "OWNS", "Customer", customer.customer_id,
                         "Account", accts[i].account_id)
            @@ [is_primary |-> IsPrimary(i), ownership_percentage |-> percentage[i]]]

\* Mutant of AccountBranch: the placeholder branch of accounts.py.
AccountBranchPlaceholder(acc) == FormatId("BR", 4, 1)

\* account_branch[acc["account_id"]] = acc.get("branch_id", "")
AccountBranch(acc) == acc.branch_id

\* The branches of the accounts of a customer.
BranchesOfAccounts(accounts, customer_id) ==
    {AccountBranch(acc) : acc \in Range(CustomerAccounts(accounts, customer_id))}

\* Mutant of IsPrimaryBranch: no branch is the primary one.
IsPrimaryBranchNever(i) == "N"

\* "is_primary_branch": "Y" if i == 0 else "N", for the i-th branch from 1.
IsPrimaryBranch(i) == IF i = 1 THEN "Y" ELSE "N"

\* The BANKS_AT records of one customer whose branches are visited in the
\* order `customer_branches', the list having n records so far.
BanksAtOf(customer, customer_branches, n) ==
    [i \in 1 .. Len(customer_branches) |->
        Relationship("REL-BNK", n + i, "BANKS_AT", "Customer", customer.customer_id,
                     "Branch", customer_branches[i])
        @@ [is_primary_branch |-> IsPrimaryBranch(i)]]

\* valid_accounts = {acc["account_id"] for acc in accounts}
ValidAccounts(accounts) == {acc.account_id : acc \in Range(accounts)}

\* potential_targets = [a for a in valid_accounts if a != source_acc]
PotentialTargets(valid_accounts, source_acc) ==
    SelectSeq(SetIteration(valid_accounts), LAMBDA a : a # source_acc)

\* Mutant of AddAmount: the amount of the first transfer is kept.
KeepAmount(total_amount, amount) == total_amount

\* stats["total_amount"] += amount
AddAmount(total_amount, amount) == total_amount + amount

\* transfer_stats[key] after one more transfer of the pair: the dictionary
\* is a list of entries in the order of their first transfer.
RecordTransfer(stats, source, target, amount, date) ==
    IF \E k \in 1 .. Len(stats) : stats[k].source = source /\ stats[k].target = target
    THEN [k \in 1 .. Len(stats) |->
            IF stats[k].source = source /\ stats[k].target = target
            THEN [stats[k] EXCEPT !.count = @ + 1,
                                  !.total_amount = AddAmount(@, amount),
                                  !.first_date = Min(@, date),
                                  !.last_date = Max(@, date)]
            ELSE stats[k]]
    ELSE Append(stats, [source |-> source, target |-> target, count |-> 1,
                        total_amount |-> amount, first_date |-> date,
                        last_date |-> date])

\* Mutant of Repeated: one transfer is enough.
RepeatedOnce(count) == count >= 1

\* if stats["count"] >= 2
Repeated(count) == count >= 2

\* The TRANSFER_TO records: one for every pair with two transfers or more.
TransfersOf(stats) ==
    LET often == SelectSeq(stats, LAMBDA s : Repeated(s.count))
    IN  [i \in 1 .. Len(often) |->
            [relationship_id     |-> FormatId("REL-TRF", 8, i),
             relationship_type   |-> "TRANSFER_TO",
             source_type         |-> "Account",
             source_id           |-> often[i].source,
             target_type         |-> "Account",
             target_id           |-> often[i].target,
             frequency           |-> often[i].count,
             total_amount        |-> often[i].total_amount,
             first_transfer_date |-> often[i].first_date,
             last_transfer_date  |-> often[i].last_date]]

\* individuals / corporates of generate_employment_relationships
OfType(customers, customer_type) ==
    SelectSeq(customers, LAMBDA c : c.customer_type = customer_type)

\* len(employed_individuals)
NumEmployed(customers) ==
    LET individuals == OfType(customers, "Individual")
        corporates  == OfType(customers, "Corporate")
    IN  IF corporates = <<>> \/ individuals = <<>> THEN 0
        ELSE Min(Min(Len(individuals) \div 10, Len(corporates) * 50),
                 Len(individuals))

\* The accounts that generate_authorized_user_relationships visits, each with
\* the customer it is visited for, in the order of the visits.
AuthorizedVisits(customers, accounts) ==
    Concat([k \in 1 .. Len(customers) |->
        LET accts == CustomerAccounts(accounts, customers[k].customer_id)
        IN  [i \in 1 .. Len(accts) |->
                [customer_id |-> customers[k].customer_id, account |-> accts[i]]]])

\* The generators, in the order generate_all_relationships calls them.  The
\* two loops of generate_customer_relationships are two phases.
Phases == <<"owns", "banks_at", "transfers", "knows", "referred",
            "employment", "authorized">>

\* The number of passes of the loop of a phase.
Passes(phase) ==
    IF phase \in {"owns", "banks_at"} THEN Len(rl.customers)
    ELSE IF phase = "transfers" THEN Len(rl.transactions)
    ELSE IF phase = "knows"
    THEN IF Len(rl.customers) < 2 THEN 0 ELSE rl.num_relationships
    ELSE IF phase = "referred"
    THEN IF Len(rl.customers) < 2 THEN 0 ELSE rl.num_relationships \div 5
    ELSE IF phase = "employment" THEN NumEmployed(rl.customers)
    ELSE Len(AuthorizedVisits(rl.customers, rl.accounts))

RelationshipFrame(dir) ==
    [running |-> TRUE,
     customers |-> load_tsv(dir, "customers.tsv"),
     accounts |-> load_tsv(dir, "accounts.tsv"),
     branches |-> load_tsv(dir, "branches.tsv"),
     transactions |-> load_tsv(dir, "transactions.tsv"),
     num_relationships |-> Len(load_tsv(dir, "customers.tsv")) \div 5,
     phase |-> 1, k |-> 0,
     owns |-> <<>>, banks_at |-> <<>>, transfers |-> <<>>, social |-> <<>>,
     employment |-> <<>>, authorized_users |-> <<>>,
     transfer_stats |-> <<>>, employed |-> {}]

\* Call of generate_all_relationships: the four entity files are loaded.
RelationshipsCall ==
    /\ pc = "relationships"
    /\ rl = Idle
    /\ rl' = RelationshipFrame(fs)
    /\ pc' = "relationships_loop"
    /\ UNCHANGED <<prog, args, env, rng, fs, hist, br, cu, ac, tx>>

\* The loop of a phase has a pass to make.
InPhase(phase) ==
    /\ pc = "relationships_loop"
    /\ Phases[rl.phase] = phase
    /\ rl.k < Passes(phase)

\* generate_customer_account_relationships: `for customer in customers:'
OwnsCustomer ==
    /\ InPhase("owns")
    /\ LET customer == rl.customers[rl.k + 1]
           n == Len(CustomerAccounts(rl.accounts, customer.customer_id))
       IN  /\ \E percentage \in OwnershipPercentages(customer, n) :
                rl' = [rl EXCEPT
                         !.owns = @ \o OwnsOf(customer, rl.accounts, Len(@), percentage),
                         !.k = @ + 1]
           /\ rng' = Advance(IF customer.customer_type = "Corporate" THEN n ELSE 0)
    /\ UNCHANGED <<prog, pc, args, env, fs, hist, br, cu, ac, tx>>

\* generate_customer_branch_relationships: `for customer in customers:'
BanksAtCustomer ==
    /\ InPhase("banks_at")
    /\ LET customer == rl.customers[rl.k + 1]
           of_accounts == BranchesOfAccounts(rl.accounts, customer.customer_id)
           fallback == of_accounts = {} /\ rl.branches # <<>>
       IN  /\ \E b \in Choices(1 .. Len(rl.branches), 0) :
                LET customer_branches ==
                        IF fallback THEN <<rl.branches[b].branch_id>>
                        ELSE SetIteration(of_accounts)
                IN  rl' = [rl EXCEPT
                             !.banks_at = @ \o BanksAtOf(customer, customer_branches,
                                                          Len(rl.banks_at)),
                             !.k = @ + 1]
           /\ rng' = Advance(IF fallback THEN 1 ELSE 0)
    /\ UNCHANGED <<prog, pc, args, env, fs, hist, br, cu, ac, tx>>

\* generate_transfer_relationships: `for tx in transactions:'
TransferScan ==
    /\ InPhase("transfers")
    /\ LET t == rl.transactions[rl.k + 1]
           valid_accounts == ValidAccounts(rl.accounts)
           potential_targets == PotentialTargets(valid_accounts, t.account_id)
           candidate == /\ t.transaction_type = "Transfer"
                        /\ t.status = "Completed"
                        /\ t.account_id \in valid_accounts
                        /\ potential_targets # <<>>
       IN  IF candidate
           THEN \E drawn \in Choices(BOOLEAN, 0),
                   target \in Choices(1 .. Len(potential_targets), 1) :
                  /\ rl' = [rl EXCEPT
                               !.transfer_stats =
                                   IF drawn
                                   THEN RecordTransfer(@, t.account_id,
                                                       potential_targets[target],
                                                       t.amount, t.transaction_date)
                                   ELSE @,
                               !.k = @ + 1]
                  /\ rng' = Advance(IF drawn THEN 2 ELSE 1)
           ELSE /\ rl' = [rl EXCEPT !.k = @ + 1]
                /\ rng' = rng
    /\ UNCHANGED <<prog, pc, args, env, fs, hist, br, cu, ac, tx>>

\* generate_customer_relationships: `for _ in range(num_relationships):'
\* Two different customers are drawn; the record is made if they live in
\* the same city (a column the model does not keep) or a further draw says
\* so.
KnowsIter ==
    /\ InPhase("knows")
    /\ LET n == Len(rl.customers)
       IN  \E c1 \in Choices(1 .. n, 0) :
           \E c2 \in Choices((1 .. n) \ {c1}, 1), made \in Choices(BOOLEAN, 2) :
              rl' = [rl EXCEPT
                       !.social =
                           IF made
                           THEN Append(@, Relationship("REL-KNW", Len(@) + 1, "KNOWS",
                                           "Customer", rl.customers[c1].customer_id,
                                           "Customer", rl.customers[c2].customer_id))
                           ELSE @,
                       !.k = @ + 1]
    /\ rng' = Advance(3)
    /\ UNCHANGED <<prog, pc, args, env, fs, hist, br, cu, ac, tx>>

\* Mutant of JoinedBefore: the same day will do.
JoinedNotAfter(referrer_date, referee_date) == referrer_date <= referee_date

\* if referrer_date < referee_date
JoinedBefore(referrer_date, referee_date) == referrer_date < referee_date

\* generate_customer_relationships: `for _ in range(num_referrals):'
ReferredIter ==
    /\ InPhase("referred")
    /\ LET n == Len(rl.customers)
       IN  \E r1 \in Choices(1 .. n, 0) :
           \E r2 \in Choices((1 .. n) \ {r1}, 1) :
              LET referrer == rl.customers[r1]
                  referee  == rl.customers[r2]
              IN  rl' = [rl EXCEPT
                           !.social =
                               IF JoinedBefore(referrer.member_since,
                                               referee.member_since)
                               THEN Append(@, Relationship("REL-REF", Len(@) + 1,
                                               "REFERRED_BY",
                                               "Customer", referee.customer_id,
                                               "Customer", referrer.customer_id))
                               ELSE @,
                           !.k = @ + 1]
    /\ rng' = Advance(2)
    /\ UNCHANGED <<prog, pc, args, env, fs, hist, br, cu, ac, tx>>

\* generate_employment_relationships: `for ind in employed_individuals:'
\* with the draw of random.sample(individuals, ...) that put `ind' there.
EmploymentIter ==
    /\ InPhase("employment")
    /\ LET individuals == OfType(rl.customers, "Individual")
           corporates  == OfType(rl.customers, "Corporate")
       IN  \E ind \in Choices((1 .. Len(individuals)) \ rl.employed, 0),
              corp \in Choices(1 .. Len(corporates), 1) :
              rl' = [rl EXCEPT
                       !.employment =
                           Append(@, Relationship("REL-EMP", Len(@) + 1, "EMPLOYED_BY",
                                       "Customer", individuals[ind].customer_id,
                                       "Customer", corporates[corp].customer_id)),
                       !.employed = @ \cup {ind},
                       !.k = @ + 1]
    /\ rng' = Advance(2)
    /\ UNCHANGED <<prog, pc, args, env, fs, hist, br, cu, ac, tx>>

\* generate_authorized_user_relationships: `for acc in accts:'
AuthorizedIter ==
    /\ InPhase("authorized")
    /\ LET visit == AuthorizedVisits(rl.customers, rl.accounts)[rl.k + 1]
           other_customers ==
               SelectSeq([k \in 1 .. Len(rl.customers) |-> rl.customers[k].customer_id],
                         LAMBDA c : c # visit.customer_id)
           is_card == visit.account.account_type = "CreditCard"
       IN  IF is_card /\ other_customers # <<>>
           THEN \E drawn \in Choices(BOOLEAN, 0),
                   auth_user \in Choices(1 .. Len(other_customers), 1) :
                  /\ rl' = [rl EXCEPT
                               !.authorized_users =
                                   IF drawn
                                   THEN Append(@, Relationship("REL-AUT", Len(@) + 1,
                                                   "AUTHORIZED_USER",
                                                   "Customer", other_customers[auth_user],
                                                   "Account", visit.account.account_id))
                                   ELSE @,
                               !.k = @ + 1]
                  /\ rng' = Advance(IF drawn THEN 2 ELSE 1)
           ELSE /\ rl' = [rl EXCEPT !.k = @ + 1]
                /\ rng' = Advance(IF is_card THEN 1 ELSE 0)
    /\ UNCHANGED <<prog, pc, args, env, fs, hist, br, cu, ac, tx>>

\* A generator returns and the next one is called.  The return of
\* generate_transfer_relationships makes the TRANSFER_TO records.
RelationshipsReturn ==
    /\ pc = "relationships_loop"
    /\ rl.phase < Len(Phases)
    /\ rl.k = Passes(Phases[rl.phase])
    /\ rl' = [rl EXCEPT !.phase = @ + 1,
                        !.k = 0,
                        !.transfers = IF Phases[rl.phase] = "transfers"
                                      THEN TransfersOf(rl.transfer_stats) ELSE @]
    /\ UNCHANGED <<prog, pc, args, env, rng, fs, hist, br, cu, ac, tx>>

\* Mutant of WriteIfAny: the file is written even if there is no record.
WriteAlways(dir, name, rels) == WriteFile(dir, name, rels)

\* `if rels:' write the file of the relationship type
WriteIfAny(dir, name, rels) ==
    IF rels # <<>> THEN WriteFile(dir, name, rels) ELSE dir

\* The last generator has returned: every list that is not empty is written
\* to its file, and all of them together to relationships_all.tsv.
RelationshipsSave ==
    /\ pc = "relationships_loop"
    /\ rl.phase = Len(Phases)
    /\ rl.k = Passes(Phases[rl.phase])
    /\ LET d1 == WriteIfAny(fs, "owns_account.tsv", rl.owns)
           d2 == WriteIfAny(d1, "banks_at.tsv", rl.banks_at)
           d3 == WriteIfAny(d2, "transfer_to.tsv", rl.transfers)
           d4 == WriteIfAny(d3, "knows.tsv", rl.social)
           d5 == WriteIfAny(d4, "employed_by.tsv", rl.employment)
           d6 == WriteIfAny(d5, "authorized_user.tsv", rl.authorized_users)
           all_rels == rl.owns \o rl.banks_at \o rl.transfers \o rl.social
                       \o rl.employment \o rl.authorized_users
       IN  fs' = WriteIfAny(d6, "relationships_all.tsv", all_rels)
    /\ rl' = Idle
    /\ pc' = "done"
    /\ UNCHANGED <<prog, args, env, rng, hist, br, cu, ac, tx>>

NextRelationships ==
    \/ RelationshipsCall
    \/ OwnsCustomer
    \/ BanksAtCustomer
    \/ TransferScan
    \/ KnowsIter
    \/ ReferredIter
    \/ EmploymentIter
    \/ AuthorizedIter
    \/ RelationshipsReturn
    \/ RelationshipsSave

\* Row k of an accounts.tsv: an Active Checking account.
InputAccount(k, customer_id, branch_id) ==
    AccountRow([account_id   |-> FormatId("ACC", 10, k),
                customer_id  |-> customer_id,
                branch_id    |-> branch_id,
                account_type |-> "Checking",
                status       |-> "Active"])

\* Row k of a customers.tsv.
InputCustomer(k, customer_type, member_since) ==
    CustomerRow([customer_id   |-> CustomerId(customer_type, k),
                 customer_type |-> customer_type,
                 member_since  |-> member_since])

\* Directories in which the owners and branches of the accounts vary: two
\* customers, one of them Corporate, two branches, and accounts of the two
\* customers or of a customer that customers.tsv does not have.
OwnerInputs ==
    {[EmptyDir EXCEPT
        !["branches.tsv"] = File(BranchFile(2)),
        !["customers.tsv"] =
            File([k \in 1 .. 2 |-> InputCustomer(k, types[k], StageEnv.today - k)]),
        !["accounts.tsv"] =
            File([k \in 1 .. n |->
                    InputAccount(k, CustomerId(types[((owner[k] - 1) % 2) + 1], owner[k]),
                                 BranchFile(2)[branch[k]].branch_id)])] :
        types \in {<<"Individual", "Corporate">>, <<"Corporate", "Individual">>},
        n \in 0 .. MaxOwnedAccounts,
        owner \in [1 .. MaxOwnedAccounts -> 1 .. 3],
        branch \in [1 .. MaxOwnedAccounts -> 1 .. 2]}

\* The transaction kinds of the inputs: only the first is a transfer that
\* counts.
InputTransactionKinds ==
    {<<"Transfer", "Completed">>, <<"Transfer", "Pending">>, <<"Deposit", "Completed">>}

\* The amounts of the transactions of an input, in cents, by row: no two
\* sets of rows have the same sum.
InputAmounts == <<12550, 30025, 70010, 150005>>

\* Row k of a transactions.tsv.
InputTransaction(k, account, kind, date) ==
    TransactionRow([transaction_id   |-> FormatId("TXN", 12, k),
                    account_id       |-> FormatId("ACC", 10, account),
                    transaction_type |-> kind[1],
                    amount           |-> InputAmounts[k],
                    transaction_date |-> date,
                    transaction_time |-> 12,
                    status           |-> kind[2]])

\* Directories in which the transactions vary: one customer with `accounts'
\* accounts and n transactions of the kinds given.
TransferDirs(accounts, n, kinds) ==
    {[EmptyDir EXCEPT
        !["branches.tsv"] = File(BranchFile(1)),
        !["customers.tsv"] = File(<<InputCustomer(1, "Individual", StageEnv.today - 1)>>),
        !["accounts.tsv"] =
            File([k \in 1 .. accounts |->
                    InputAccount(k, CustomerId("Individual", 1),
                                 BranchFile(1)[1].branch_id)]),
        !["transactions.tsv"] =
            File([k \in 1 .. n |->
                    InputTransaction(k, account[k], kind[k], StageEnv.today - date[k])])] :
        account \in [1 .. n -> 1 .. accounts],
        kind \in [1 .. n -> kinds],
        date \in [1 .. n -> 1 .. 2]}

\* The member_since dates of the customers of an input, by row: all the
\* same, later row by row, earlier row by row, or in turns.
MemberSincePatterns ==
    {[k \in 1 .. NumSocialCustomers |-> StageEnv.today - 100],
     [k \in 1 .. NumSocialCustomers |-> StageEnv.today - 100 + k],
     [k \in 1 .. NumSocialCustomers |-> StageEnv.today - 100 - k],
     [k \in 1 .. NumSocialCustomers |-> StageEnv.today - 100 + (k % 3)]}

\* Directories with customers enough for a referral and an employment, and
\* no accounts.
SocialInputs ==
    {[EmptyDir EXCEPT
        !["branches.tsv"] = File(BranchFile(2)),
        !["customers.tsv"] =
            File([k \in 1 .. NumSocialCustomers |->
                    InputCustomer(k, IF k % 12 = 0 THEN "Corporate" ELSE "Individual",
                                  member_since[k])])] :
        member_since \in MemberSincePatterns}

\* relationships.py started on the files of a directory.
InitRelationships ==
    /\ prog = "relationships"
    /\ pc = "relationships"
    /\ args = NoArgs
    /\ env \in {e \in Envs : e.today = StageEnv.today}
    /\ \/ /\ fs \in OwnerInputs
          /\ rng = Free
       \/ /\ \E accounts \in 2 .. 3, n \in 0 .. MaxInputTransactions :
                fs \in TransferDirs(accounts, n, InputTransactionKinds)
          /\ rng = Free
       \/ /\ fs \in TransferDirs(2, MaxCompletedTransfers, {<<"Transfer", "Completed">>})
          /\ rng = Free
       \/ /\ fs \in SocialInputs
          /\ rng \in {Seeded(seed) : seed \in 0 .. MaxSocialSeed}
    /\ Fresh

SpecRelationships == InitRelationships /\ [][NextRelationships]_vars

(***************************************************************************)
(* generate_all.py: the orchestrator.                                      *)
(***************************************************************************)
\* DATASET_SIZES, scaled down: the rows of a preset that the stages read.
\* The largest has a customer to refer (25 customers or more) and an
\* individual to employ (10 individuals or more).
DATASET_SIZES ==
    {[branches |-> b, individual |-> c[1], corporate |-> c[2], hnw |-> c[3],
      days |-> 30] :
        b \in 1 .. MaxPipelineBranches,
        c \in {<<1, 0, 0>>, <<1, 1, 1>>, <<PipelineIndividuals, 1, 1>>}}

\* args of main(): a preset and --skip-transactions.
MainArgs ==
    {[branches |-> size.branches, individual |-> size.individual,
      corporate |-> size.corporate, hnw |-> size.hnw, days |-> size.days,
      skip_transactions |-> skip] :
        size \in DATASET_SIZES, skip \in BOOLEAN}

\* main() after random.seed(args.seed), in a new output directory.
InitMain ==
    /\ prog = "main"
    /\ pc = "branches"
    /\ args \in MainArgs
    /\ env \in Envs
    /\ rng \in {Seeded(s) : s \in Seeds}
    /\ fs = EmptyDir
    /\ Fresh

NextMain ==
    \/ NextBranches
    \/ NextCustomers
    \/ NextAccounts
    \/ NextTransactions
    \/ TransactionsSkip
    \/ NextRelationships

Spec == InitMain /\ [][NextMain]_vars

(***************************************************************************)
(* The orchestrator run twice with the same seed and the same preset, each *)
(* time in a new process (another day, another order of string sets) and a *)
(* new output directory.                                                   *)
(***************************************************************************)
Rerun ==
    /\ prog = "main"
    /\ pc = "done"
    /\ hist = <<>>
    /\ hist' = <<fs>>
    /\ fs' = EmptyDir
    /\ pc' = "branches"
    /\ env' \in Envs
    /\ rng' = Seeded(rng.seed)
    /\ UNCHANGED <<prog, args, br, cu, ac, tx, rl>>

NextTwice == NextMain \/ Rerun

SpecTwice == InitMain /\ [][NextTwice]_vars

(***************************************************************************)
(* The orchestrator run again in the output directory of its first run     *)
(* (--output has a default), with the same preset and seed, with or        *)
(* without --skip-transactions.                                            *)
(***************************************************************************)
RunAgain ==
    /\ prog = "main"
    /\ pc = "done"
    /\ hist = <<>>
    /\ hist' = <<fs>>
    /\ pc' = "branches"
    /\ \E skip \in BOOLEAN : args' = [args EXCEPT !.skip_transactions = skip]
    /\ rng' = Seeded(rng.seed)
    /\ UNCHANGED <<prog, env, fs, br, cu, ac, tx, rl>>

NextAgain == NextMain \/ RunAgain

SpecAgain == InitMain /\ [][NextAgain]_vars

(***************************************************************************)
(* The orchestrator from the transaction stage on, in an output directory  *)
(* as the first three stages can leave it: one customer with accounts of   *)
(* any type and status, or customers enough for every relationship, each   *)
(* with an Active account.                                                 *)
(***************************************************************************)
TailAccountTypes == {"Checking", "CreditCard"}

TailAccountStatus == {"Active", "Dormant"}

\* The directory after the account stage: one branch, one customer.
TailDirs ==
    {[EmptyDir EXCEPT
        !["branches.tsv"] = File(BranchFile(1)),
        !["customers.tsv"] = File(<<InputCustomer(1, "Individual", StageEnv.today - 1)>>),
        !["accounts.tsv"] =
            File([k \in 1 .. NumTailAccounts |->
                    AccountRow([account_id   |-> FormatId("ACC", 10, k),
                                customer_id  |-> CustomerId("Individual", 1),
                                branch_id    |-> BranchFile(1)[1].branch_id,
                                account_type |-> type[k],
                                status       |-> status[k]])])] :
        type \in [1 .. NumTailAccounts -> TailAccountTypes],
        status \in [1 .. NumTailAccounts -> TailAccountStatus]}

\* The directory after the account stage: customers enough for a referral
\* and an employment, each with one account.
TailSocialDirs ==
    {[dir EXCEPT
        !["accounts.tsv"] =
            File([k \in 1 .. NumSocialCustomers |->
                    InputAccount(k, dir["customers.tsv"].rows[k].customer_id,
                                 BranchFile(2)[(k % 2) + 1].branch_id)])] :
        dir \in SocialInputs}

InitTail ==
    /\ prog = "main"
    /\ pc = "transactions"
    /\ env = StageEnv
    /\ \/ /\ args = [NoArgs EXCEPT !.branches = 1, !.individual = 1, !.days = 30]
          /\ fs \in TailDirs
          /\ rng \in {[Seeded(seed) EXCEPT !.pos = pos] :
                        seed \in 0 .. MaxTailSeed, pos \in 0 .. MaxTailPos}
       \/ /\ args = [NoArgs EXCEPT !.branches = 2,
                                   !.individual = NumSocialCustomers, !.days = 30]
          /\ fs \in TailSocialDirs
          /\ rng \in {Seeded(seed) : seed \in 0 .. MaxSeed}
    /\ Fresh

NextTail == NextTransactions \/ NextRelationships

SpecTail == InitTail /\ [][NextTail]_vars

(***************************************************************************)
(* accounts.py and transactions.py started on an upstream file that no     *)
(* stage wrote as it is: the header lacks a column that the loader reads,  *)
(* or a line is shorter than the header.                                   *)
(***************************************************************************)
\* The file with the column taken out of its header: DictReader gives no
\* row of it the key.
WithoutColumn(rows, column) ==
    [k \in 1 .. Len(rows) |-> [f \in DOMAIN rows[k] \ {column} |-> rows[k][f]]]

\* The row of a line that ends after the columns kept: DictReader fills the
\* other columns of the header with None.
ShortLine(row, kept) ==
    [f \in kept \cup {"filled"} |-> IF f = "filled" THEN DOMAIN row \ kept ELSE row[f]]

\* The file with line k cut short.
WithShortLine(rows, k, kept) == [rows EXCEPT ![k] = ShortLine(rows[k], kept)]

\* The ways a file of two rows lacks a column among those listed; a short
\* line still holds the first column of the header.
Malformed(rows, columns, first) ==
    {WithoutColumn(rows, column) : column \in columns}
    \cup {WithShortLine(rows, k, {first}) : k \in 1 .. Len(rows)}

MalformedCustomerFiles ==
    UNION {Malformed(rows, {"customer_id", "customer_type"}, "customer_id") :
              rows \in CustomerFiles(2)}

MalformedBranchFiles == {WithoutColumn(BranchFile(1), "branch_id")}

MalformedAccountFiles ==
    UNION {Malformed(rows, {"account_id", "account_type"}, "account_id") :
              rows \in AccountFiles(2)}

InitReadBack ==
    /\ env = StageEnv
    /\ rng \in {Seeded(seed) : seed \in Seeds}
    /\ Fresh
    /\ \/ /\ prog = "accounts"
          /\ pc = "accounts"
          /\ args = NoArgs
          /\ fs \in {[EmptyDir EXCEPT !["branches.tsv"] = File(BranchFile(1)),
                                      !["customers.tsv"] = File(rows)] :
                        rows \in MalformedCustomerFiles}
                     \cup {[EmptyDir EXCEPT !["branches.tsv"] = File(rows)] :
                              rows \in MalformedBranchFiles}
       \/ /\ prog = "transactions"
          /\ pc = "transactions"
          /\ args = [NoArgs EXCEPT !.days = DefaultDays]
          /\ fs \in {[EmptyDir EXCEPT !["accounts.tsv"] = File(rows)] :
                        rows \in MalformedAccountFiles}

NextReadBack ==
    \/ NextAccounts
    \/ AccountsKeyError
    \/ NextTransactions
    \/ TransactionsKeyError

SpecReadBack == InitReadBack /\ [][NextReadBack]_vars

(***************************************************************************)
(* Claims about generate_branches (checked under SpecBranches).            *)
(***************************************************************************)
BranchesDone == prog = "branches" /\ pc = "done"

BranchRows == fs["branches.tsv"].rows

CitiesOf(rows) == {rows[k].city : k \in 1 .. Len(rows)}

AllCities == {US_BANKING_LOCATIONS[k].city : k \in 1 .. NumLocations}

\* C5: for every target count N >= 1 (so for the preset counts 10, 25, 75,
\* 150 and 500) generate_branches writes exactly N rows to branches.tsv.
C5_BranchCount ==
    BranchesDone => /\ fs["branches.tsv"].exists
                    /\ Len(BranchRows) = args.branches

\* C6 as stated: for every target count N >= 1 every city of the location
\* table has at least one branch in the output.
C6_EveryCityHasBranch ==
    BranchesDone => CitiesOf(BranchRows) = AllCities

\* C6 as amended: every city has at least one branch for every target count
\* N >= 65; for any N the cities served are a non-empty prefix of the
\* location table, and for N < 44 some city has no branch.
C6_CitiesServed ==
    BranchesDone =>
        /\ args.branches >= 65 => CitiesOf(BranchRows) = AllCities
        /\ \E k \in 1 .. NumLocations :
              CitiesOf(BranchRows) = {US_BANKING_LOCATIONS[j].city : j \in 1 .. k}
        /\ args.branches < NumLocations => CitiesOf(BranchRows) # AllCities

\* A finished run of the preset count 75 in which every city is served.
C6_Witness ==
    /\ BranchesDone
    /\ args.branches = 75
    /\ CitiesOf(BranchRows) = AllCities


(***************************************************************************)
(* Claims about the customer records (checked under SpecCustomers).        *)
(***************************************************************************)
\* A customer record has just been returned by one of the three generators.
HasCustomer == pc = "customers_loop" /\ cu.customer # NoRecord

\* C7: for every customer record of every variant, status is Suspended if
\* and only if kyc_status is Rejected, and is Active otherwise.
C7_StatusIffRejected ==
    HasCustomer =>
        /\ cu.customer.status \in {"Active", "Suspended"}
        /\ cu.customer.status = "Suspended" <=> cu.customer.kyc_status = "Rejected"

\* C10: every customer record of every variant has an integer risk_score
\* with 1 <= risk_score <= 100.
C10_RiskScoreRange ==
    HasCustomer =>
        /\ cu.customer.risk_score \in Int
        /\ 1 <= cu.customer.risk_score
        /\ cu.customer.risk_score <= 100

\* A rejected customer who joined less than 90 days ago and whose score was
\* cut down to 100.
C10_Witness ==
    /\ HasCustomer
    /\ cu.customer.kyc_status = "Rejected"
    /\ env.today - cu.customer.member_since < 90
    /\ cu.customer.risk_score = 100

(***************************************************************************)
(* Claims about the account records (checked under SpecAccounts).          *)
(***************************************************************************)
\* generate_account has just returned a record.
HasAccount == pc = "accounts_loop" /\ ac.account # NoRecord

\* The account records of the run so far: the one just returned, the ones
\* appended, and the ones written to accounts.tsv.
AccountRecords ==
    (IF HasAccount THEN {AccountRow(ac.account)} ELSE {})
    \cup (IF ac # Idle THEN Range(ac.accounts) ELSE {})
    \cup Range(Load(fs, "accounts.tsv"))

CustomerIds(dir) == {row.customer_id : row \in Range(Load(dir, "customers.tsv"))}

BranchIds(dir) == {row.branch_id : row \in Range(Load(dir, "branches.tsv"))}

AccountIds(dir) == {row.account_id : row \in Range(Load(dir, "accounts.tsv"))}

\* The branch stage and the customer stage have written their files (a
\* stage writes no file without rows).
StagesWritten ==
    /\ fs["branches.tsv"].exists /\ fs["branches.tsv"].rows # <<>>
    /\ fs["customers.tsv"].exists /\ fs["customers.tsv"].rows # <<>>

\* C2: when branches.tsv and customers.tsv have been written and
\* generate_accounts runs on them, every account record has the customer_id
\* of a row of customers.tsv and the branch_id of a row of branches.tsv.
C2_AccountReferences ==
    StagesWritten =>
        \A a \in AccountRecords :
            /\ a.customer_id \in CustomerIds(fs)
            /\ a.branch_id \in BranchIds(fs)

\* accounts.tsv has been written from a customers.tsv whose only customer is
\* not the first placeholder customer and from a branches.tsv of two rows,
\* and an account is held at the second branch.
C2_Witness ==
    /\ StagesWritten
    /\ pc = "done"
    /\ fs["accounts.tsv"].exists
    /\ PlaceholderCustomers[1].customer_id \notin CustomerIds(fs)
    /\ Len(fs["branches.tsv"].rows) = 2
    /\ \E a \in Range(fs["accounts.tsv"].rows) :
          a.branch_id = fs["branches.tsv"].rows[2].branch_id

\* C8: every account record of every one of the 8 types has
\* min_balance(type) <= balance <= max_balance(type).
C8_BalanceRange ==
    HasAccount =>
        /\ Cents(ACCOUNT_TYPES[ac.account.account_type].min_balance)
              <= ac.account.balance
        /\ ac.account.balance
              <= Cents(ACCOUNT_TYPES[ac.account.account_type].max_balance)

\* C9: every CreditCard record has balance <= 0 and an available_credit
\* equal to the credit_limit of the same record plus the balance.
C9_CreditCard ==
    (HasAccount /\ ac.account.account_type = "CreditCard") =>
        /\ ac.account.balance <= 0
        /\ ac.account.available_credit
              = ac.account.credit_limit + ac.account.balance

\* A card that owes more than the limit stored in its record: the balance
\* came from a higher limit than the one drawn for the record.
C9_Witness ==
    /\ HasAccount
    /\ ac.account.account_type = "CreditCard"
    /\ ac.account.balance < 0
    /\ ac.account.available_credit < 0

(***************************************************************************)
(* Claims about the transaction records (checked under SpecTransactions).  *)
(***************************************************************************)
\* generate_transaction has just returned a record.
HasTransaction == pc = "transactions_loop" /\ tx.transaction # NoRecord

ActiveAccountIds(dir) ==
    {row.account_id : row \in {r \in Range(Load(dir, "accounts.tsv")) : IsActive(r)}}

\* The transaction records of the run so far.
TransactionRecords ==
    (IF HasTransaction THEN {TransactionRow(tx.transaction)} ELSE {})
    \cup (IF tx # Idle THEN Range(tx.transactions) ELSE {})
    \cup Range(Load(fs, "transactions.tsv"))

\* C3: for every accounts.tsv of the account stage, whatever the statuses of
\* its accounts, every transaction record has the account_id of an account
\* of the file whose status is Active.
C3_TransactionReferences ==
    fs["accounts.tsv"].exists =>
        \A t \in TransactionRecords : t.account_id \in ActiveAccountIds(fs)

(***************************************************************************)
(* Claims about the relationship records (checked under Spec).             *)
(***************************************************************************)
\* The relationship records of the run so far: the lists of the generators
\* and the rows of the files written.
RelationshipRecords ==
    (IF rl # Idle
     THEN Range(rl.owns) \cup Range(rl.banks_at) \cup Range(rl.transfers)
          \cup Range(rl.social) \cup Range(rl.employment)
          \cup Range(rl.authorized_users)
     ELSE {})
    \cup UNION {Range(Load(fs, name)) : name \in RelationshipFiles}

\* The identifiers of the records of a kind in the entity files.
Existing(kind) ==
    IF kind = "Customer" THEN CustomerIds(fs)
    ELSE IF kind = "Account" THEN AccountIds(fs)
    ELSE IF kind = "Branch" THEN BranchIds(fs)
    ELSE {}

\* C4: every relationship record made from the four entity files of one
\* orchestrator run has a source_id that is the identifier of a record of
\* kind source_type and a target_id that is the identifier of a record of
\* kind target_type.
C4_RelationshipReferences ==
    \A r \in RelationshipRecords :
        /\ r.source_id \in Existing(r.source_type)
        /\ r.target_id \in Existing(r.target_type)

\* A finished run that wrote a file of every relationship type, with a
\* referral among the social records.
C4_Witness ==
    /\ prog = "main" /\ pc = "done"
    /\ \A name \in RelationshipFiles : fs[name].exists
    /\ \E r \in Range(fs["knows.tsv"].rows) : r.relationship_type = "REFERRED_BY"

(***************************************************************************)
(* Claims about two runs of the orchestrator (checked under SpecTwice).    *)
(***************************************************************************)
\* The second run is over.
BothDone == prog = "main" /\ pc = "done" /\ hist # <<>>

\* C1: two full runs with the same seed and the same preset write the same
\* contents to every output file, whatever the date of each run and
\* whatever the order in which each run iterates sets of identifiers.
C1_Deterministic ==
    BothDone => \A name \in FileNames : fs[name] = hist[1][name]

\* C11: every transaction record has 0 <= risk_score <= 100, and is flagged
\* if and only if its risk_score is above 50.
C11_TxRiskScore ==
    HasTransaction =>
        /\ 0 <= tx.transaction.risk_score
        /\ tx.transaction.risk_score <= 100
        /\ tx.transaction.is_flagged <=> tx.transaction.risk_score > 50

\* A transfer above 5000 made at night that adds up to more than 100 and is
\* flagged at 100.
C11_Witness ==
    /\ HasTransaction
    /\ tx.transaction.transaction_type = "Transfer"
    /\ tx.transaction.amount > Cents(5000)
    /\ tx.transaction.transaction_time < 6
    /\ tx.transaction.risk_score = 100
    /\ tx.transaction.is_flagged

\* generate_transactions has returned and has written transactions.tsv.
TransactionsWritten ==
    /\ prog = "transactions" /\ pc = "done"
    /\ fs["transactions.tsv"].exists

\* C12: the rows of transactions.tsv written by generate_transactions are in
\* non-decreasing order of (transaction_date, transaction_time), whatever
\* the order in which the transactions were generated.
C12_SortedByDateTime ==
    TransactionsWritten =>
        LET rows == fs["transactions.tsv"].rows
        IN  \A i, j \in 1 .. Len(rows) :
               i < j =>
                  \/ rows[i].transaction_date < rows[j].transaction_date
                  \/ /\ rows[i].transaction_date = rows[j].transaction_date
                     /\ rows[i].transaction_time <= rows[j].transaction_time

\* A file in which a transaction generated later stands before one generated
\* earlier, on an earlier date.
C12_Witness ==
    /\ TransactionsWritten
    /\ LET rows == fs["transactions.tsv"].rows
       IN  \E i, j \in 1 .. Len(rows) :
              /\ i < j
              /\ rows[i].transaction_id[3] > rows[j].transaction_id[3]
              /\ rows[i].transaction_date < rows[j].transaction_date

(***************************************************************************)
(* Claims about the output of generate_customers (checked under            *)
(* SpecCustomers).                                                         *)
(***************************************************************************)
\* generate_customers has returned.
CustomersDone == prog = "customers" /\ pc = "done"

\* The rows of a type among the rows of customers.tsv.
CustomerRowsOfType(customer_type) ==
    SelectSeq(Load(fs, "customers.tsv"), LAMBDA row : row.customer_type = customer_type)

\* C13: generate_customers(num_individual, num_corporate, num_hnw) outputs
\* num_individual + num_corporate + num_hnw records: the records made by the
\* three loops, each once, with num_individual Individual, num_corporate
\* Corporate and num_hnw HighNetWorth records among them.
C13_CustomerCardinality ==
    CustomersDone =>
        LET rows == Load(fs, "customers.tsv")
            ni == args.individual
            nc == args.corporate
            nh == args.hnw
        IN  /\ Len(rows) = ni + nc + nh
            /\ Len(CustomerRowsOfType("Individual")) = ni
            /\ Len(CustomerRowsOfType("Corporate")) = nc
            /\ Len(CustomerRowsOfType("HighNetWorth")) = nh
            /\ {row.customer_id : row \in Range(rows)}
                  = {CustomerId("Individual", k) : k \in 1 .. ni}
                    \cup {CustomerId("Corporate", k) : k \in ni + 1 .. ni + nc}
                    \cup {CustomerId("HighNetWorth", k) :
                             k \in ni + nc + 1 .. ni + nc + nh}

\* A file with a customer of every type, written in another order than the
\* one the customers were made in.
C13_Witness ==
    /\ CustomersDone
    /\ args.individual = 1 /\ args.corporate = 1 /\ args.hnw = 1
    /\ fs["customers.tsv"].exists
    /\ fs["customers.tsv"].rows[1].customer_type = "HighNetWorth"
    /\ fs["customers.tsv"].rows[3].customer_type = "Individual"

(***************************************************************************)
(* Claims about the output of generate_accounts (checked under             *)
(* SpecAccounts).                                                          *)
(***************************************************************************)
\* generate_accounts has returned.
AccountsDone == prog = "accounts" /\ pc = "done"

\* The rows of accounts.tsv of a customer.
AccountsOwnedBy(customer_id) ==
    SelectSeq(Load(fs, "accounts.tsv"), LAMBDA row : row.customer_id = customer_id)

\* The accounts of the customer are between lo and hi, of these types only.
OwnsWithin(customer_id, lo, hi, types) ==
    LET owned == AccountsOwnedBy(customer_id)
    IN  /\ lo <= Len(owned) /\ Len(owned) <= hi
        /\ \A k \in 1 .. Len(owned) : owned[k].account_type \in types

\* C14: in the output of generate_accounts every customer of customers.tsv
\* owns at least one account: an Individual 1 to 6, a Corporate 2 to 8 of
\* types Checking, CreditCard, Savings only, a HighNetWorth 3 to 10 of types
\* Checking, Savings, Investment, CreditCard, CD only.
C14_AccountsPerCustomer ==
    (AccountsDone /\ fs["customers.tsv"].exists) =>
        \A c \in Range(fs["customers.tsv"].rows) :
            /\ Len(AccountsOwnedBy(c.customer_id)) >= 1
            /\ c.customer_type = "Individual" =>
                  OwnsWithin(c.customer_id, 1, 6, AccountTypeNames)
            /\ c.customer_type = "Corporate" =>
                  OwnsWithin(c.customer_id, 2, 8, {"Checking", "CreditCard", "Savings"})
            /\ c.customer_type = "HighNetWorth" =>
                  OwnsWithin(c.customer_id, 3, 10,
                             {"Checking", "Savings", "Investment", "CreditCard", "CD"})

\* An Individual customer who was given 6 accounts, the most that
\* num_accounts is cut down to.
C14_Witness ==
    /\ AccountsDone
    /\ fs["customers.tsv"].exists
    /\ \E c \in Range(fs["customers.tsv"].rows) :
          /\ c.customer_type = "Individual"
          /\ Len(AccountsOwnedBy(c.customer_id)) = 6

(***************************************************************************)
(* Claims about the identifiers of one orchestrator run (checked under     *)
(* Spec).                                                                  *)
(***************************************************************************)
\* No two rows have the same value in the column.
DistinctIn(rows, column) ==
    \A i, j \in 1 .. Len(rows) : i # j => rows[i][column] # rows[j][column]

\* The sequence numbers of the column grow from each row to the next.
IncreasingIn(rows, column) ==
    \A i \in 1 .. Len(rows) - 1 : rows[i][column][3] < rows[i + 1][column][3]

\* `before' is the beginning of `after'.
IsPrefix(before, after) ==
    /\ Len(before) <= Len(after)
    /\ SubSeq(after, 1, Len(before)) = before

\* The identifiers of every file are distinct, and the records that a stage
\* has made so far carry growing sequence numbers.
IdentifiersUnique ==
    /\ DistinctIn(Load(fs, "branches.tsv"), "branch_id")
    /\ DistinctIn(Load(fs, "customers.tsv"), "customer_id")
    /\ DistinctIn(Load(fs, "accounts.tsv"), "account_id")
    /\ DistinctIn(Load(fs, "transactions.tsv"), "transaction_id")
    /\ DistinctIn(Load(fs, "relationships_all.tsv"), "relationship_id")
    /\ br # Idle => IncreasingIn(br.branches, "branch_id")
    /\ cu # Idle => IncreasingIn(cu.customers, "customer_id")
    /\ ac # Idle => IncreasingIn(ac.accounts, "account_id")
    /\ tx # Idle => IncreasingIn(tx.transactions, "transaction_id")
    /\ rl # Idle =>
          /\ IncreasingIn(rl.owns, "relationship_id")
          /\ IncreasingIn(rl.banks_at, "relationship_id")
          /\ IncreasingIn(rl.transfers, "relationship_id")
          /\ IncreasingIn(rl.social, "relationship_id")
          /\ IncreasingIn(rl.employment, "relationship_id")
          /\ IncreasingIn(rl.authorized_users, "relationship_id")

\* A step leaves alone the records that a stage has returned and appended to
\* its list, and the files that are written.
ReturnedRecordsKept ==
    /\ (br # Idle /\ br' # Idle) => IsPrefix(br.branches, br'.branches)
    /\ (cu # Idle /\ cu' # Idle) => IsPrefix(cu.customers, cu'.customers)
    /\ (ac # Idle /\ ac' # Idle) => IsPrefix(ac.accounts, ac'.accounts)
    /\ (tx # Idle /\ tx' # Idle) => IsPrefix(tx.transactions, tx'.transactions)
    /\ (rl # Idle /\ rl' # Idle) =>
          /\ IsPrefix(rl.owns, rl'.owns)
          /\ IsPrefix(rl.banks_at, rl'.banks_at)
          /\ IsPrefix(rl.transfers, rl'.transfers)
          /\ IsPrefix(rl.social, rl'.social)
          /\ IsPrefix(rl.employment, rl'.employment)
          /\ IsPrefix(rl.authorized_users, rl'.authorized_users)
    /\ \A name \in FileNames : fs[name].exists => fs'[name] = fs[name]

\* The customer record that exists in generate_customers or in the generator
\* it has called, if any.
CustomerInHand ==
    IF cu = Idle THEN NoRecord
    ELSE IF cu.hnw # NoRecord THEN cu.hnw
    ELSE cu.customer

\* A step does not change the customer_id of a customer record that exists.
CreatedCustomerIdKept ==
    (CustomerInHand # NoRecord /\ CustomerInHand' # NoRecord) =>
        CustomerInHand'.customer_id = CustomerInHand.customer_id

\* C15 as stated: within one run the identifiers of each file are distinct,
\* sequence numbers grow in the order of creation, and an identifier is
\* never changed after its record has been created.
C15_IdentifiersNeverChanged ==
    /\ []IdentifiersUnique
    /\ [][ReturnedRecordsKept /\ CreatedCustomerIdKept]_vars

\* C15 as amended: within one run the identifiers of each file are distinct,
\* sequence numbers grow in the order of creation, and an identifier is
\* never changed after its record has been returned by its generator and
\* appended to the list of its stage.
C15_IdentifiersUniqueAndKept ==
    /\ []IdentifiersUnique
    /\ [][ReturnedRecordsKept]_vars

\* A finished run whose customers.tsv has a HighNetWorth customer and whose
\* relationships_all.tsv has a referral numbered after the KNOWS records.
C15_Witness ==
    /\ prog = "main" /\ pc = "done"
    /\ \E c \in Range(Load(fs, "customers.tsv")) : c.customer_id[1] = "HNW"
    /\ \E r \in Range(Load(fs, "relationships_all.tsv")) :
          r.relationship_id[1] = "REL-REF" /\ r.relationship_id[3] > 1

(***************************************************************************)
(* Claims about the stages of one orchestrator run (checked under Spec).   *)
(***************************************************************************)
\* The stages of main(), in the order of the source.
Stages == <<"branches", "customers", "accounts", "transactions", "relationships">>

\* The number of the stage that is about to be called or is running; one
\* more than the number of stages when main() is over.
StageNumber ==
    IF pc = "done" THEN Len(Stages) + 1
    ELSE CHOOSE n \in 1 .. Len(Stages) : pc \in {Stages[n], Stages[n] \o "_loop"}

\* The output file of each of the first four stages.
StageFile == <<"branches.tsv", "customers.tsv", "accounts.tsv", "transactions.tsv">>

\* The frame of each stage.
StageFrames == <<br, cu, ac, tx, rl>>

\* Only the stage whose loop is running has a frame; the files of the
\* stages before the current one are written, the files of the current
\* stage and of the later ones are not; the relationship files are written
\* by the last stage only.
StageBarrier ==
    /\ \A n \in 1 .. Len(Stages) :
          StageFrames[n] # Idle <=> pc = Stages[n] \o "_loop"
    /\ \A n \in 1 .. Len(StageFile) :
          fs[StageFile[n]].exists <=> n < StageNumber
    /\ \A name \in RelationshipFiles : fs[name].exists => pc = "done"

\* A step stays in its stage or moves to the next one, and leaves every
\* file that is written as it is.
StageOrder ==
    /\ StageNumber' \in {StageNumber, StageNumber + 1}
    /\ \A name \in FileNames : fs[name].exists => fs'[name] = fs[name]

\* The seed is the one set at the start, and the stream is only read on.
SeedKept ==
    /\ rng.seeded /\ rng'.seeded
    /\ rng'.seed = rng.seed
    /\ rng'.pos >= rng.pos

\* C16: in every orchestrator run the seed is set once, before any stage;
\* the stages run in the order branches, customers, accounts, transactions
\* (or its placeholder), relationships; the output file of a stage is
\* written before the next stage reads its inputs, and no stage reads a
\* file that a later stage writes.
C16_StageOrderAndBarrier ==
    /\ []StageBarrier
    /\ [][StageOrder /\ SeedKept]_vars

\* The relationship stage is running on the four entity files, the
\* transactions having been generated from the accounts.
C16_Witness ==
    /\ prog = "main" /\ pc = "relationships_loop"
    /\ ~args.skip_transactions
    /\ rl.transactions # <<>>
    /\ rl.customers = fs["customers.tsv"].rows
    /\ rl.accounts = fs["accounts.tsv"].rows
    /\ rl.phase = 3

(***************************************************************************)
(* Claims about the files of the relationship stage (checked under         *)
(* SpecAgain: the output directory may hold the files of an earlier run).  *)
(***************************************************************************)
\* The TRANSFER_TO records of a file of the output directory.
TransferEdges(name) ==
    SelectSeq(Load(fs, name), LAMBDA r : r.relationship_type = "TRANSFER_TO")

\* C17: when the orchestrator runs with --skip-transactions, transactions.tsv
\* is a header-only placeholder, the relationship stage runs, and there is
\* no TRANSFER_TO record: none in the list that
\* generate_transfer_relationships returns, none in relationships_all.tsv
\* and none in transfer_to.tsv of the output directory.
C17_SkipTransactions ==
    (prog = "main" /\ args.skip_transactions) =>
        /\ rl # Idle => rl.transactions = <<>> /\ rl.transfers = <<>>
        /\ pc = "done" =>
              /\ fs["transactions.tsv"] = File(<<>>)
              /\ fs["relationships_all.tsv"].exists
              /\ TransferEdges("relationships_all.tsv") = <<>>
              /\ TransferEdges("transfer_to.tsv") = <<>>

\* C18: when generate_all_relationships has returned, each of the six subset
\* files and relationships_all.tsv has been written by this run (the output
\* directory was empty at its start), including when a subset is empty.
C18_AllRelationshipFiles ==
    (prog = "main" /\ pc = "done" /\ hist = <<>>) =>
        \A name \in RelationshipFiles : fs[name].exists

(***************************************************************************)
(* Claims about the inputs of generate_accounts (checked under             *)
(* SpecAccounts).                                                          *)
(***************************************************************************)
NoCustomersInput == Load(fs, "customers.tsv") = <<>>

NoBranchesInput == Load(fs, "branches.tsv") = <<>>

PlaceholderCustomerIds ==
    {PlaceholderCustomers[k].customer_id : k \in 1 .. Len(PlaceholderCustomers)}

\* C19: when customers.tsv or branches.tsv does not exist or holds no rows,
\* generate_accounts does not fail: it prints a warning, works with the
\* placeholder customers (all Individual) or the placeholder branch, and
\* writes an accounts.tsv that is not empty and whose customer_id or
\* branch_id values all come from the placeholders.
C19_MissingInput ==
    /\ (prog = "accounts" /\ pc # "done") => ENABLED NextAccounts
    /\ (pc = "accounts_loop" /\ NoCustomersInput) =>
          /\ ac.customers = PlaceholderCustomers
          /\ \A k \in 1 .. Len(ac.customers) : ac.customers[k].customer_type = "Individual"
          /\ "Warning: No customers found. Generating with placeholder IDs."
                \in Range(ac.warnings)
    /\ (pc = "accounts_loop" /\ NoBranchesInput) =>
          /\ ac.branches = PlaceholderBranches
          /\ "Warning: No branches found. Using placeholder branch."
                \in Range(ac.warnings)
    /\ (AccountsDone /\ (NoCustomersInput \/ NoBranchesInput)) =>
          /\ fs["accounts.tsv"].exists
          /\ fs["accounts.tsv"].rows # <<>>
          /\ NoCustomersInput =>
                {row.customer_id : row \in Range(fs["accounts.tsv"].rows)}
                   = PlaceholderCustomerIds
          /\ NoBranchesInput =>
                {row.branch_id : row \in Range(fs["accounts.tsv"].rows)}
                   = Range(PlaceholderBranches)

\* generate_accounts has returned in a directory that has no customers.tsv
\* and a branches.tsv with the header only: every placeholder customer has
\* an account at the placeholder branch.
C19_Witness ==
    /\ AccountsDone
    /\ ~fs["customers.tsv"].exists
    /\ fs["branches.tsv"] = File(<<>>)
    /\ \A id \in PlaceholderCustomerIds :
          \E row \in Range(fs["accounts.tsv"].rows) :
             row.customer_id = id /\ row.branch_id = PlaceholderBranches[1]

(***************************************************************************)
(* Claims about rows that lack a column (checked under SpecReadBack).      *)
(***************************************************************************)
\* The row lacks one of the columns: its header or its line does.
Lacks(row, columns) == \E c \in columns : c \notin DOMAIN row

\* The rows of the output file that carry in the column the value the
\* upstream row has there.
DerivedFrom(row, column, output) ==
    IF column \notin DOMAIN row THEN {}
    ELSE {out \in Range(Load(fs, output)) : out[column] = row[column]}

\* The account stage has not raised, and once it has returned accounts.tsv
\* has no record of a customers.tsv row that lacks a column.
AccountStageSkips ==
    /\ prog = "accounts" => pc # "KeyError"
    /\ AccountsDone =>
          \A row \in Range(Load(fs, "customers.tsv")) :
             Lacks(row, {"customer_id", "customer_type"}) =>
                DerivedFrom(row, "customer_id", "accounts.tsv") = {}

\* The transaction stage has not raised, and once it has returned
\* transactions.tsv has no record of an accounts.tsv row that lacks a column
\* (the placeholder accounts, made when no row is loaded, have the
\* identifiers of the first accounts, whatever the rows are).
TransactionStageSkips ==
    /\ prog = "transactions" => pc # "KeyError"
    /\ (prog = "transactions" /\ pc = "done" /\ load_accounts(fs) # <<>>) =>
          \A row \in Range(Load(fs, "accounts.tsv")) :
             Lacks(row, {"account_id", "account_type"}) =>
                DerivedFrom(row, "account_id", "transactions.tsv") = {}

\* C20: when a stage reads back an upstream file in which a row lacks a
\* required column (customer_id or customer_type for the account stage,
\* account_id or account_type for the transaction stage), the row is
\* skipped: the stage raises no error and produces no output record derived
\* from that row.
C20_MalformedRowSkipped == AccountStageSkips /\ TransactionStageSkips

(***************************************************************************)
(* Claims about the files a stage leaves alone (checked under SpecAgain:   *)
(* in the second run every file is there from the start).                  *)
(***************************************************************************)
\* The step leaves the output files of the stages before the current one as
\* they are.
EarlierFilesKept ==
    \A n \in 1 .. Len(StageFile) :
       n < StageNumber => fs'[StageFile[n]] = fs[StageFile[n]]

\* C21: within one orchestrator run no stage writes the output file of a
\* stage before it: the account stage leaves branches.tsv and customers.tsv
\* as they are, the transaction stage leaves those and accounts.tsv, and
\* the relationship stage leaves the four entity files.
C21_AppendOnlyStages == [][EarlierFilesKept]_vars

\* The second run in the same directory is over, transactions included:
\* every stage has written its file over the one of the first run.
C21_Witness ==
    /\ prog = "main" /\ pc = "done"
    /\ hist # <<>>
    /\ ~args.skip_transactions
    /\ \A name \in EntityFiles : fs[name].exists /\ fs[name].rows # <<>>
    /\ fs["relationships_all.tsv"].exists

(***************************************************************************)
(* Claims about the generators of relationships.py (checked under          *)
(* SpecRelationships).                                                     *)
(***************************************************************************)
RelationshipsDone == prog = "relationships" /\ pc = "done"

\* The rows of transactions.tsv, among the first n, that are completed
\* transfers on the account.
CompletedTransfers(source, n) ==
    {k \in 1 .. Min(n, Len(Load(fs, "transactions.tsv"))) :
        LET t == Load(fs, "transactions.tsv")[k]
        IN  /\ t.transaction_type = "Transfer"
            /\ t.status = "Completed"
            /\ t.account_id = source}

\* The transactions that generate_transfer_relationships has scanned.
Scanned ==
    IF Phases[rl.phase] = "transfers" THEN rl.k
    ELSE IF rl.phase < 3 THEN 0 ELSE Len(rl.transactions)

\* The TRANSFER_TO records that are returned, or written once the stage is
\* over.
TransferRecords == IF rl # Idle THEN rl.transfers ELSE Load(fs, "transfer_to.tsv")

\* No ordered pair is twice in the list.
OnePerPair(pairs) == \A i, j \in 1 .. Len(pairs) : pairs[i] = pairs[j] => i = j

\* C22: generate_transfer_relationships emits a TRANSFER_TO record for an
\* ordered pair (source, target) only if two or more completed transfers on
\* the account source were drawn and given the target: what is counted for
\* a pair never exceeds the completed transfers scanned on its source, a
\* record has a frequency of two or more, its source is not its target, and
\* no pair has two records.
C22_TransferThreshold ==
    /\ (prog = "relationships" /\ rl # Idle) =>
          /\ \A s \in Range(rl.transfer_stats) :
                /\ s.source # s.target
                /\ s.count <= Cardinality(CompletedTransfers(s.source, Scanned))
          /\ OnePerPair([k \in 1 .. Len(rl.transfer_stats) |->
                            <<rl.transfer_stats[k].source, rl.transfer_stats[k].target>>])
    /\ prog = "relationships" =>
          /\ \A r \in Range(TransferRecords) :
                /\ r.relationship_type = "TRANSFER_TO"
                /\ r.source_id # r.target_id
                /\ r.frequency >= 2
                /\ r.frequency <=
                      Cardinality(CompletedTransfers(r.source_id,
                                                     Len(Load(fs, "transactions.tsv"))))
          /\ OnePerPair([k \in 1 .. Len(TransferRecords) |->
                            <<TransferRecords[k].source_id, TransferRecords[k].target_id>>])

\* The stage is over and wrote one TRANSFER_TO record, of an account that
\* also has a transaction that does not count.
C22_Witness ==
    /\ RelationshipsDone
    /\ Len(Load(fs, "transfer_to.tsv")) = 1
    /\ \E t \in Range(Load(fs, "transactions.tsv")) :
          /\ t.account_id = fs["transfer_to.tsv"].rows[1].source_id
          /\ ~(t.transaction_type = "Transfer" /\ t.status = "Completed")

RECURSIVE SumOfAmounts(_)
\* The sum of the amounts of the rows of transactions.tsv numbered in S.
SumOfAmounts(S) ==
    IF S = {} THEN 0
    ELSE LET k == CHOOSE x \in S : TRUE
         IN  Load(fs, "transactions.tsv")[k].amount + SumOfAmounts(S \ {k})

\* The dates of the rows of transactions.tsv numbered in S.
DatesOf(S) == {Load(fs, "transactions.tsv")[k].transaction_date : k \in S}

\* The record counts the transactions numbered in S and nothing else.
Aggregates(r, S) ==
    /\ r.frequency = Cardinality(S)
    /\ r.total_amount = SumOfAmounts(S)
    /\ r.first_transfer_date \in DatesOf(S)
    /\ r.last_transfer_date \in DatesOf(S)
    /\ \A d \in DatesOf(S) : r.first_transfer_date <= d /\ d <= r.last_transfer_date

\* All the completed transfers of transactions.tsv.
AllCompletedTransfers ==
    UNION {CompletedTransfers(t.account_id, Len(Load(fs, "transactions.tsv"))) :
              t \in Range(Load(fs, "transactions.tsv"))}

\* accounts.tsv has two accounts, and the completed transfers of
\* transactions.tsv are two transactions on one of them.
TwoTransfersOfOneAccount ==
    /\ Len(Load(fs, "accounts.tsv")) = 2
    /\ Cardinality(AllCompletedTransfers) = 2
    /\ \E acc \in Range(Load(fs, "accounts.tsv")) :
          AllCompletedTransfers
             = CompletedTransfers(acc.account_id, Len(Load(fs, "transactions.tsv")))

\* C23: with two accounts and a transaction list whose only completed
\* transfers are two transactions on the same account, there is no
\* TRANSFER_TO record or exactly one, from that account to the other, with
\* frequency 2, total_amount the sum of the two amounts, first_transfer_date
\* the earlier and last_transfer_date the later of the two dates; and every
\* record has the frequency, the sum and the first and last date of some of
\* the completed transfers on its source, with first_transfer_date <=
\* last_transfer_date.
C23_TransferAggregation ==
    prog = "relationships" =>
        /\ TwoTransfersOfOneAccount =>
              \/ TransferRecords = <<>>
              \/ /\ Len(TransferRecords) = 1
                 /\ Aggregates(TransferRecords[1], AllCompletedTransfers)
                 /\ \A k \in AllCompletedTransfers :
                       Load(fs, "transactions.tsv")[k].account_id
                          = TransferRecords[1].source_id
                 /\ TransferRecords[1].target_id
                       \in ValidAccounts(Load(fs, "accounts.tsv"))
                             \ {TransferRecords[1].source_id}
        /\ \A r \in Range(TransferRecords) :
              /\ r.first_transfer_date <= r.last_transfer_date
              /\ \E S \in SUBSET CompletedTransfers(r.source_id,
                                                    Len(Load(fs, "transactions.tsv"))) :
                    Aggregates(r, S)

\* The stage is over: of two accounts one has the two completed transfers
\* of the file, made on different days, and both were drawn.
C23_Witness ==
    /\ RelationshipsDone
    /\ TwoTransfersOfOneAccount
    /\ Len(Load(fs, "transfer_to.tsv")) = 1
    /\ fs["transfer_to.tsv"].rows[1].first_transfer_date
          < fs["transfer_to.tsv"].rows[1].last_transfer_date

\* generate_customer_account_relationships has returned.
OwnsReturned == (rl # Idle /\ rl.phase > 1) \/ pc = "done"

\* The OWNS records that are returned, or written once the stage is over.
OwnsRecords == IF rl # Idle THEN rl.owns ELSE Load(fs, "owns_account.tsv")

\* The OWNS records of a customer, in the order they were made.
OwnsRecordsOf(customer_id) ==
    SelectSeq(OwnsRecords, LAMBDA r : r.source_id = customer_id)

\* C24: generate_customer_account_relationships emits exactly one OWNS
\* record for each account whose customer_id is the identifier of a loaded
\* customer, from that customer to that account, and no other record; of
\* the records of a customer that owns an account exactly one has
\* is_primary = Y, the one of its first account in file order; and every
\* record of an owner that is not Corporate has ownership_percentage 100.
C24_OwnsEdges ==
    (prog = "relationships" /\ OwnsReturned) =>
        LET customers == Load(fs, "customers.tsv")
            accounts  == Load(fs, "accounts.tsv")
            owned     == SelectSeq(accounts, LAMBDA acc : acc.customer_id \in CustomerIds(fs))
        IN  /\ Len(OwnsRecords) = Len(owned)
            /\ \A acc \in Range(owned) :
                  \E r \in Range(OwnsRecords) :
                     /\ r.relationship_type = "OWNS"
                     /\ r.source_id = acc.customer_id
                     /\ r.target_id = acc.account_id
            /\ \A c \in Range(customers) :
                  LET of_c  == OwnsRecordsOf(c.customer_id)
                      accts == CustomerAccounts(accounts, c.customer_id)
                  IN  /\ Len(of_c) = Len(accts)
                      /\ accts # <<>> =>
                            /\ of_c[1].is_primary = "Y"
                            /\ of_c[1].target_id = accts[1].account_id
                            /\ \A i \in 2 .. Len(of_c) : of_c[i].is_primary = "N"
                      /\ c.customer_type # "Corporate" =>
                            \A r \in Range(of_c) : r.ownership_percentage = 100

\* The stage is over: the second customer of the file owns the first and
\* the third account, the first customer the second one, and a Corporate
\* owner has a share of 50.
C24_Witness ==
    /\ RelationshipsDone
    /\ Len(Load(fs, "customers.tsv")) = 2
    /\ Len(Load(fs, "accounts.tsv")) = 3
    /\ Len(Load(fs, "owns_account.tsv")) = 3
    /\ LET customers == fs["customers.tsv"].rows
           accounts  == fs["accounts.tsv"].rows
       IN  /\ accounts[1].customer_id = customers[2].customer_id
           /\ accounts[2].customer_id = customers[1].customer_id
           /\ accounts[3].customer_id = customers[2].customer_id
    /\ \E r \in Range(fs["owns_account.tsv"].rows) : r.ownership_percentage = 50

\* The KNOWS and REFERRED_BY records that are made, or written once the
\* stage is over.
SocialRecords == IF rl # Idle THEN rl.social ELSE Load(fs, "knows.tsv")

\* The member_since date of the customer of customers.tsv.
MemberSince(customer_id) ==
    (CHOOSE c \in Range(Load(fs, "customers.tsv")) : c.customer_id = customer_id).member_since

\* Every REFERRED_BY record goes from a customer to another one that joined
\* on an earlier day.
ReferrerJoinedFirst ==
    prog = "relationships" =>
        \A r \in Range(SocialRecords) :
           r.relationship_type = "REFERRED_BY" =>
              /\ r.source_id # r.target_id
              /\ MemberSince(r.target_id) < MemberSince(r.source_id)

\* A pass of the referral loop: the pair that the stream draws gives a
\* record, from the referee to the referrer, if the referrer joined on an
\* earlier day, and gives none if not.
ReferralStep ==
    (prog = "relationships" /\ rng.seeded /\ InPhase("referred")) =>
        LET n == Len(rl.customers)
            r1 == CHOOSE x \in Choices(1 .. n, 0) : TRUE
            r2 == CHOOSE x \in Choices((1 .. n) \ {r1}, 1) : TRUE
            referrer == rl.customers[r1]
            referee  == rl.customers[r2]
        IN  IF referrer.member_since < referee.member_since
            THEN /\ Len(rl'.social) = Len(rl.social) + 1
                 /\ rl'.social[Len(rl'.social)].relationship_type = "REFERRED_BY"
                 /\ rl'.social[Len(rl'.social)].source_id = referee.customer_id
                 /\ rl'.social[Len(rl'.social)].target_id = referrer.customer_id
            ELSE rl'.social = rl.social

\* C25: every REFERRED_BY record has the referee as source and the referrer
\* as target, the two are different customers, and the member_since date of
\* the referrer is strictly earlier than the one of the referee; a pair
\* drawn with equal dates or a later referrer date gives no record.
C25_ReferredByOrdering == []ReferrerJoinedFirst /\ [][ReferralStep]_vars

\* The stage is over and wrote a REFERRED_BY record.
C25_Witness ==
    /\ RelationshipsDone
    /\ \E r \in Range(Load(fs, "knows.tsv")) :
          /\ r.relationship_type = "REFERRED_BY"
          /\ MemberSince(r.target_id) < MemberSince(r.source_id)

(***************************************************************************)
(* Claims about the relationships of the data of one orchestrator run      *)
(* (checked under Spec).                                                   *)
(***************************************************************************)
\* The account records of the run so far: the list of generate_accounts and
\* the rows of accounts.tsv.
AccountsSoFar ==
    (IF ac # Idle THEN Range(ac.accounts) ELSE {}) \cup Range(Load(fs, "accounts.tsv"))

\* generate_customer_branch_relationships has returned.
BanksAtReturned == (rl # Idle /\ rl.phase > 2) \/ pc = "done"

\* The BANKS_AT records that are returned, or written once the run is over.
BanksAtRecords == IF rl # Idle THEN rl.banks_at ELSE Load(fs, "banks_at.tsv")

\* C26: in the data of an orchestrator run all accounts of one customer have
\* the same branch_id; generate_customer_branch_relationships finds a branch
\* among the accounts of every customer (it never draws one), and returns
\* exactly one BANKS_AT record per customer, with is_primary_branch = Y.
C26_SingleBranch ==
    prog = "main" =>
        /\ \A a, b \in AccountsSoFar :
              a.customer_id = b.customer_id => a.branch_id = b.branch_id
        /\ InPhase("banks_at") =>
              BranchesOfAccounts(rl.accounts, rl.customers[rl.k + 1].customer_id) # {}
        /\ BanksAtReturned =>
              /\ Len(BanksAtRecords) = Len(Load(fs, "customers.tsv"))
              /\ \A c \in Range(Load(fs, "customers.tsv")) :
                    \E r \in Range(BanksAtRecords) :
                       /\ r.source_id = c.customer_id
                       /\ r.is_primary_branch = "Y"
                       /\ \A acc \in Range(Load(fs, "accounts.tsv")) :
                             acc.customer_id = c.customer_id => acc.branch_id = r.target_id

\* The run is over: there are two branches, a customer has two accounts,
\* and banks_at.tsv has a record for each of the three customers.
C26_Witness ==
    /\ prog = "main" /\ pc = "done"
    /\ Len(Load(fs, "branches.tsv")) = 2
    /\ Len(Load(fs, "customers.tsv")) = 3
    /\ Len(Load(fs, "banks_at.tsv")) = 3
    /\ \E a, b \in Range(Load(fs, "accounts.tsv")) :
          a.customer_id = b.customer_id /\ a.account_id # b.account_id

(***************************************************************************)
(* Claims about the limit of a credit card (checked under SpecAccounts).   *)
(***************************************************************************)
\* C27: for every CreditCard record the amount owed does not exceed the
\* credit limit of the record: -balance <= credit_limit, and therefore
\* available_credit >= 0.
C27_CreditWithinLimit ==
    (HasAccount /\ ac.account.account_type = "CreditCard") =>
        /\ -ac.account.balance <= ac.account.credit_limit
        /\ ac.account.available_credit >= 0

(***************************************************************************)
(* Claims about the files of empty subsets (checked under SpecAgain).      *)
(***************************************************************************)
\* file_name_map, by file: the list of all_relationships that goes to it.
SubsetOf(name) ==
    IF name = "owns_account.tsv" THEN rl.owns
    ELSE IF name = "banks_at.tsv" THEN rl.banks_at
    ELSE IF name = "transfer_to.tsv" THEN rl.transfers
    ELSE IF name = "knows.tsv" THEN rl.social
    ELSE IF name = "employed_by.tsv" THEN rl.employment
    ELSE rl.authorized_users

\* The step in which generate_all_relationships saves its lists writes the
\* file of a list that has a record, and leaves the file of an empty list
\* as it is.
SavedIffAny ==
    (pc = "relationships_loop" /\ pc' = "done") =>
        \A name \in RelationshipFiles \ {"relationships_all.tsv"} :
           IF SubsetOf(name) # <<>>
           THEN fs'[name] = File(SubsetOf(name))
           ELSE fs'[name] = fs[name]

\* After a run that wrote transfer_to.tsv and a run with
\* --skip-transactions in the same directory, transfer_to.tsv is the one of
\* the first run and relationships_all.tsv has no TRANSFER_TO record.
StaleTransfersKept ==
    (/\ prog = "main" /\ pc = "done"
     /\ hist # <<>>
     /\ args.skip_transactions
     /\ hist[1]["transfer_to.tsv"].exists) =>
        /\ fs["transfer_to.tsv"] = hist[1]["transfer_to.tsv"]
        /\ TransferEdges("transfer_to.tsv") # <<>>
        /\ TransferEdges("relationships_all.tsv") = <<>>

\* C28: generate_all_relationships writes the file of a subset if and only
\* if the subset has a record, and leaves a file of that name untouched
\* otherwise; after a full run and a run with --skip-transactions in the
\* same output directory, transfer_to.tsv still has the records of the
\* first run and relationships_all.tsv has none of type TRANSFER_TO.
C28_EmptySubsetsWriteNothing == []StaleTransfersKept /\ [][SavedIffAny]_vars

\* The second run, with --skip-transactions, is over in a directory where
\* the first run wrote transfer_to.tsv.
C28_Witness ==
    /\ prog = "main" /\ pc = "done"
    /\ hist # <<>>
    /\ args.skip_transactions
    /\ hist[1]["transfer_to.tsv"].exists
    /\ fs["transfer_to.tsv"].rows # <<>>
    /\ fs["relationships_all.tsv"] # hist[1]["relationships_all.tsv"]

(***************************************************************************)
(* Claims about the amount in the risk score of a transaction (checked     *)
(* under SpecTransactions).                                                *)
(***************************************************************************)
\* The transaction has the flag.
Flagged(t, flag) == flag \in Range(t.risk_flags)

\* What the flags and the type of the record add to its score, the amount
\* band left out.
OtherRisk(t) ==
    (IF Flagged(t, "Unusual_Time") THEN 15 ELSE 0)
    + (IF t.transaction_type = "Transfer" /\ t.amount > Cents(5000) THEN 10 ELSE 0)
    + (IF t.transaction_type = "Withdrawal" /\ t.amount > Cents(3000) THEN 10 ELSE 0)
    + (IF Flagged(t, "International") THEN 25 ELSE 0)
    + (IF Flagged(t, "Velocity_Spike") THEN 30 ELSE 0)
    + (IF Flagged(t, "Suspicious_Pattern") THEN 40 ELSE 0)

\* C29: every transaction with amount > 5000, those with amount > 10000
\* included, gets 20 for its amount and the flag High_Amount; no
\* transaction gets 40 for its amount or the flag Very_High_Amount; an
\* amount <= 5000 adds nothing and gives no flag.
C29_AmountBand ==
    HasTransaction =>
        LET t == tx.transaction
        IN  /\ ~Flagged(t, "Very_High_Amount")
            /\ Flagged(t, "High_Amount") <=> t.amount > Cents(5000)
            /\ t.risk_score
                  = Min(100, (IF t.amount > Cents(5000) THEN 20 ELSE 0) + OtherRisk(t))

\* A transaction of more than 10000 with the flag High_Amount only: its
\* score is the 20 of the amount.
C29_Witness ==
    /\ HasTransaction
    /\ tx.transaction.amount > Cents(10000)
    /\ tx.transaction.risk_flags = <<"High_Amount">>
    /\ tx.transaction.risk_score = 20

(***************************************************************************)
(* Claims about the sources of transfers in one orchestrator run (checked  *)
(* under SpecTail).                                                        *)
(***************************************************************************)
\* The TRANSFER_TO records of the run so far.
TransfersSoFar ==
    IF rl # Idle THEN Range(rl.transfers) ELSE Range(Load(fs, "transfer_to.tsv"))

\* The row of accounts.tsv with the identifier.
AccountOf(account_id) ==
    CHOOSE acc \in Range(Load(fs, "accounts.tsv")) : acc.account_id = account_id

\* The source of every TRANSFER_TO record of the run is an account of
\* accounts.tsv whose status is Active and whose type is not CreditCard.
ActiveSources ==
    \A r \in TransfersSoFar :
       /\ r.source_id \in AccountIds(fs)
       /\ AccountOf(r.source_id).status = "Active"
       /\ AccountOf(r.source_id).account_type # "CreditCard"

=============================================================================
